---- MODULE Spec2Model ----
(***************************************************************************)
(* Myelin: effective-dated reference tables (IPSF/OPSF provider files, the *)
(* ICD-10 conversion table), the point-in-time lookups on them, the        *)
(* fiscal-year version rule and the claim-level ICD-10 code conversion.    *)
(*                                                                         *)
(* Strings are TLA+ strings; python None is NONE or NoneObj.                *)
(* Dates are records [year, month, day]; the integer dates of the provider *)
(* files are integers of the form YYYYMMDD.                                *)
(***************************************************************************)
EXTENDS Integers, Sequences, FiniteSets, TLC

VARIABLES
    vcall,      \* last call of the version functions (pure), with its result
    icd_table,  \* committed rows of table icd10_conversion, in insertion order
    icall,      \* last call of convert_backward, convert_forward or
                \* generate_claim_mappings, with its result
    psf_kind,   \* which provider file the table holds: "ipsf" or "opsf"
    psf_table,  \* committed rows of table ipsf / opsf, in insertion order
    pop_pc,     \* position of the running populate(), "idle" when none runs
    pop_old,    \* rows that were committed when the running populate() began
    pop_new,    \* rows the table holds once the running populate() has returned
    pop_rest,   \* rows of the CSV file not yet inserted
    pop_batch,  \* batch_size of the running populate()
    pcall,      \* last call of from_db, with its result
    zip_table,  \* committed rows of table zip9_data, in insertion order
    bcall,      \* the database builds run so far, with the batch they load
    fcall,      \* last call of a file parser or loader function, with its result
    drg         \* the DrgClient: its reconfiguration lock, the threads in
                \* process() and reconfigure(), the version probe loop

vars == <<vcall, icd_table, icall, psf_kind, psf_table,
          pop_pc, pop_old, pop_new, pop_rest, pop_batch, pcall,
          zip_table, bcall, fcall, drg>>

\* python None where a string is expected
NONE == "<None>"

\* python None where an object (a date, a result, an option record) is expected
NoneObj == [none |-> TRUE]

NoCall == [op |-> "none"]

-----------------------------------------------------------------------------
(* Python string and date helpers                                          *)

Digits == {"0", "1", "2", "3", "4", "5", "6", "7", "8", "9"}

DigitVal(c) ==
    CASE c = "0" -> 0 [] c = "1" -> 1 [] c = "2" -> 2 [] c = "3" -> 3
      [] c = "4" -> 4 [] c = "5" -> 5 [] c = "6" -> 6 [] c = "7" -> 7
      [] c = "8" -> 8 [] c = "9" -> 9

\* str.isnumeric() on the ASCII strings of the model: non-empty, digits only
RECURSIVE AllDigits(_)
AllDigits(s) == IF Len(s) = 0 THEN TRUE
                ELSE Head(s) \in Digits /\ AllDigits(Tail(s))

isnumeric(s) == Len(s) > 0 /\ AllDigits(s)

\* int(s, 10) of a string of digits
RECURSIVE IntOfDigits(_, _)
IntOfDigits(s, acc) == IF Len(s) = 0 THEN acc
                       ELSE IntOfDigits(Tail(s), 10 * acc + DigitVal(Head(s)))

\* int(s, 10) accepts a string of digits with an optional sign (blanks and
\* underscores, which it also accepts, do not occur in the model)
int_parses(s) ==
    \/ isnumeric(s)
    \/ Len(s) >= 2 /\ Head(s) \in {"-", "+"} /\ isnumeric(Tail(s))

int10(s) ==
    IF Head(s) = "-" THEN 0 - IntOfDigits(Tail(s), 0)
    ELSE IF Head(s) = "+" THEN IntOfDigits(Tail(s), 0)
    ELSE IntOfDigits(s, 0)

\* s[0:2]
Slice02(s) == SubSeq(s, 1, IF Len(s) < 2 THEN Len(s) ELSE 2)

endswith(s, c) == Len(s) > 0 /\ SubSeq(s, Len(s), Len(s)) = c

\* s.replace(".", "")
RECURSIVE StripDots(_)
StripDots(s) == IF Len(s) = 0 THEN ""
                ELSE IF Head(s) = "." THEN StripDots(Tail(s))
                ELSE Head(s) \o StripDots(Tail(s))

MkDate(y, m, d) == [year |-> y, month |-> m, day |-> d]

DateKey(d) == d.year * 10000 + d.month * 100 + d.day

DateLE(a, b) == DateKey(a) <= DateKey(b)

DateGT(a, b) == DateKey(a) > DateKey(b)

\* the days of the calendar and the day after a day
IsLeap(y) == y % 4 = 0 /\ (y % 100 # 0 \/ y % 400 = 0)

DaysInMonth(y, m) ==
    IF m = 2 THEN (IF IsLeap(y) THEN 29 ELSE 28)
    ELSE IF m \in {4, 6, 9, 11} THEN 30 ELSE 31

NextDay(d) ==
    IF d.day < DaysInMonth(d.year, d.month) THEN MkDate(d.year, d.month, d.day + 1)
    ELSE IF d.month < 12 THEN MkDate(d.year, d.month + 1, 1)
    ELSE MkDate(d.year + 1, 1, 1)

Range(f) == {f[i] : i \in DOMAIN f}

SeqsUpTo(S, n) == UNION {[1..k -> S] : k \in 0..n}

startswith(s, p) == Len(s) >= Len(p) /\ SubSeq(s, 1, Len(p)) = p

\* sub in s
Contains(s, sub) ==
    \E k \in 1..(Len(s) - Len(sub) + 1) : SubSeq(s, k, k + Len(sub) - 1) = sub

\* s.replace(old, new) for a non-empty old
RECURSIVE Replace(_, _, _)
Replace(s, old, new) ==
    IF Len(s) = 0 THEN ""
    ELSE IF startswith(s, old)
    THEN new \o Replace(SubSeq(s, Len(old) + 1, Len(s)), old, new)
    ELSE SubSeq(s, 1, 1) \o Replace(Tail(s), old, new)

\* re.split on single characters of seps / s.split(sep): the pieces of s
\* between the separators, in order
SplitAny(s, seps) ==
    LET cuts   == {k \in 1..Len(s) : SubSeq(s, k, k) \in seps}
        n      == Cardinality(cuts)
        cut(i) == CHOOSE k \in cuts : Cardinality({j \in cuts : j <= k}) = i
    IN  [i \in 1..(n + 1) |->
            SubSeq(s, IF i = 1 THEN 1 ELSE cut(i - 1) + 1,
                      IF i = n + 1 THEN Len(s) ELSE cut(i) - 1)]

\* s.strip(): the characters str.isspace() holds of are removed from both
\* ends; of the ASCII characters these are the blank, "\t", "\n", "\r", "\f",
\* the vertical tab (0x0b) and the separators 0x1c, 0x1d, 0x1e, 0x1f
Whitespace ==
    {" ", "\t", "\n", "\r", "\f", "", "", "", "", ""}

RECURSIVE lstrip(_)
lstrip(s) == IF Len(s) > 0 /\ SubSeq(s, 1, 1) \in Whitespace
             THEN lstrip(Tail(s)) ELSE s

RECURSIVE rstrip(_)
rstrip(s) == IF Len(s) > 0 /\ SubSeq(s, Len(s), Len(s)) \in Whitespace
             THEN rstrip(SubSeq(s, 1, Len(s) - 1)) ELSE s

strip(s) == rstrip(lstrip(s))

UpperCase == "ABCDEFGHIJKLMNOPQRSTUVWXYZ"
LowerCase == "abcdefghijklmnopqrstuvwxyz"

\* s.lower()
RECURSIVE lower(_)
lower(s) ==
    IF Len(s) = 0 THEN ""
    ELSE LET c   == SubSeq(s, 1, 1)
             hit == {k \in 1..Len(UpperCase) : SubSeq(UpperCase, k, k) = c}
         IN  (IF hit = {} THEN c
              ELSE LET k == CHOOSE k \in hit : TRUE IN SubSeq(LowerCase, k, k))
             \o lower(Tail(s))

\* the directives of _strptime: each is a regular expression the piece of the
\* string between two separators has to match as a whole
\* %d: 3[0-1]|[1-2]\d|0[1-9]|[1-9]| [1-9]
strptime_d(p) ==
    \/ Len(p) = 1 /\ p \in Digits \ {"0"}
    \/ /\ Len(p) = 2
       /\ LET a == SubSeq(p, 1, 1)
              b == SubSeq(p, 2, 2)
          IN  \/ a = "3" /\ b \in {"0", "1"}
              \/ a \in {"1", "2"} /\ b \in Digits
              \/ a \in {"0", " "} /\ b \in Digits \ {"0"}

\* %m: 1[0-2]|0[1-9]|[1-9]
strptime_m(p) ==
    \/ Len(p) = 1 /\ p \in Digits \ {"0"}
    \/ /\ Len(p) = 2
       /\ LET a == SubSeq(p, 1, 1)
              b == SubSeq(p, 2, 2)
          IN  \/ a = "1" /\ b \in {"0", "1", "2"}
              \/ a = "0" /\ b \in Digits \ {"0"}

\* int() of the piece a directive matched: the blank %d accepts before a day
\* of one digit is passed over
strptime_int(p) ==
    IF SubSeq(p, 1, 1) = " " THEN IntOfDigits(Tail(p), 0) ELSE IntOfDigits(p, 0)

\* datetime.strptime(s, "%Y-%m-%d") succeeds: %Y is four digits, and the day
\* is a day of the calendar
strptime_parses(s) ==
    LET p == SplitAny(s, {"-"})
    IN  /\ Len(p) = 3
        /\ isnumeric(p[1]) /\ Len(p[1]) = 4
        /\ strptime_m(p[2])
        /\ strptime_d(p[3])
        /\ LET y == IntOfDigits(p[1], 0)
               m == strptime_int(p[2])
               d == strptime_int(p[3])
           IN  y >= 1 /\ d <= DaysInMonth(y, m)

-----------------------------------------------------------------------------
(* Version resolver                                                        *)

\* mutant: the fiscal year turns in September
ICD_determine_drg_version_sept(date) ==
    LET year == date.year - 1983
    IN  IF date.month >= 9 THEN ToString(year + 1) \o "0"
        ELSE IF date.month > 3 THEN ToString(year) \o "1"
        ELSE ToString(year - 1) \o "0"

\* ICDConverter.determine_drg_version
ICD_determine_drg_version(date) ==
    LET year == date.year - 1983
    IN  IF date.month >= 10 THEN ToString(year + 1) \o "0"
        ELSE IF date.month > 3 THEN ToString(year) \o "1"
        ELSE ToString(year - 1) \o "0"

\* DrgClient.determine_drg_version
Drg_determine_drg_version(date) ==
    LET year == date.year - 1983
    IN  IF date.month >= 10 THEN ToString(year + 1) \o "0"
        ELSE IF date.month > 3 THEN ToString(year) \o "1"
        ELSE ToString(year - 1) \o "0"

\* DrgClient.determine_end_version; now is the sequence of the values of
\* datetime.now() at its three calls: the year is read at the first, the
\* month is compared with 10 at the second and with 3 at the third
determine_end_version(now) ==
    LET version == now[1].year - 1983
    IN  IF now[2].month >= 10 THEN ToString(version + 1) \o "0"
        ELSE IF now[3].month > 3 THEN ToString(version) \o "1"
        ELSE ToString(version - 1) \o "0"

\* drg_client.MSDRG_VSTART
MSDRG_VSTART == "400"

\* mutant: ten is added to a version ending in "1"
increment_version_ten(version) ==
    IF endswith(version, "1") THEN ToString(int10(version) + 10)
    ELSE IF endswith(version, "0") THEN ToString(int10(version) + 1)
    ELSE version

\* DrgClient.increment_version
increment_version(version) ==
    IF endswith(version, "1") THEN ToString(int10(version) + 9)
    ELSE IF endswith(version, "0") THEN ToString(int10(version) + 1)
    ELSE version

\* mutant: October 1 of the same calendar year
target_eff_date_same_year(target_version_int, target_version) ==
    LET target_eff_year == target_version_int + 1983
    IN  IF endswith(target_version, "1") THEN MkDate(target_eff_year, 4, 1)
        ELSE MkDate(target_eff_year, 10, 1)

\* generate_claim_mappings: the effective date of the target version
target_eff_date(target_version_int, target_version) ==
    LET target_eff_year == target_version_int + 1983
    IN  IF endswith(target_version, "1") THEN MkDate(target_eff_year, 4, 1)
        ELSE MkDate(target_eff_year - 1, 10, 1)

-----------------------------------------------------------------------------
(* ICD-10 conversion table: the rows [previous_code, current_code,         *)
(* effective_date, code_type] in the order of their insertion, code_type 0 *)
(* for ICD-10-CM, 1 for ICD-10-PCS; a row may be stored more than once     *)

\* datetime.strptime(s, "%Y-%m-%d").date() of a string strptime parses: the
\* year, the month and the day are the numbers between the hyphens, the
\* month and the day written with one digit or two, the day of one digit
\* also with a blank before it
strptime_date(s) ==
    LET p == SplitAny(s, {"-"})
    IN  MkDate(IntOfDigits(p[1], 0), strptime_int(p[2]), strptime_int(p[3]))

\* query_date of convert_backward / convert_forward: as_of_date is a
\* datetime [kind |-> "datetime", date] or a string [kind |-> "str", text]
query_date(as_of_date) ==
    IF as_of_date.kind = "datetime" THEN as_of_date.date
    ELSE strptime_date(as_of_date.text)

ICD10CodeOutput(code, choices) ==
    [original_code |-> code, conversion_choices |-> choices]

\* the rows selected by the filter of convert_backward, by their position
\* in the table (a table may hold equal rows)
BackwardRows(table, code, as_of_date, code_type) ==
    {i \in DOMAIN table :
        /\ table[i].current_code = StripDots(code)
        /\ DateGT(table[i].effective_date, query_date(as_of_date))
        /\ table[i].code_type = code_type}

\* order_by(desc(effective_date)).first(): a row of the greatest effective
\* date; the database is free to return any of several such rows
BackwardFirst(table, code, as_of_date, code_type) ==
    LET rows == BackwardRows(table, code, as_of_date, code_type)
    IN  {i \in rows : \A q \in rows :
            DateLE(table[q].effective_date, table[i].effective_date)}

\* ICDConverter.convert_backward: the set of results it can return
convert_backward(table, code, as_of_date, code_type) ==
    LET first == BackwardFirst(table, code, as_of_date, code_type)
    IN  IF first = {} THEN {NoneObj}
        ELSE {ICD10CodeOutput(code, <<table[i].previous_code>>) : i \in first}

\* mutant: the filter of convert_forward without the code_type condition
ForwardRows_any_type(table, code, as_of_date, code_type) ==
    {i \in DOMAIN table :
        /\ table[i].previous_code = StripDots(code)
        /\ DateLE(table[i].effective_date, query_date(as_of_date))}

\* the rows selected by the filter of convert_forward, by their position in
\* the table
ForwardRows(table, code, as_of_date, code_type) ==
    {i \in DOMAIN table :
        /\ table[i].previous_code = StripDots(code)
        /\ DateLE(table[i].effective_date, query_date(as_of_date))
        /\ table[i].code_type = code_type}

\* mutant: the rows in descending order
AscendingOrders_desc(table, rows) ==
    {s \in [1..Cardinality(rows) -> rows] :
        /\ \A i, j \in DOMAIN s : i # j => s[i] # s[j]
        /\ \A i, j \in DOMAIN s :
              i < j => DateLE(table[s[j]].effective_date,
                              table[s[i]].effective_date)}

\* order_by(asc(effective_date)).all(): the rows in every order the sort
\* allows (rows of one effective date come in any order)
AscendingOrders(table, rows) ==
    {s \in [1..Cardinality(rows) -> rows] :
        /\ \A i, j \in DOMAIN s : i # j => s[i] # s[j]
        /\ \A i, j \in DOMAIN s :
              i < j => DateLE(table[s[i]].effective_date,
                              table[s[j]].effective_date)}

\* ICDConverter.convert_forward: the set of results it can return
convert_forward(table, code, as_of_date, code_type) ==
    LET rows == ForwardRows(table, code, as_of_date, code_type)
    IN  IF rows = {} THEN {NoneObj}
        ELSE {ICD10CodeOutput(code,
                              [i \in DOMAIN s |-> table[s[i]].current_code]) :
                 s \in AscendingOrders(table, rows)}

-----------------------------------------------------------------------------
(* generate_claim_mappings                                                 *)
(* A claim is [thru_date, principal_dx, admit_dx, secondary_dxs,           *)
(* inpatient_pxs, icd_convert]: codes are strings, admit_dx may be NONE,   *)
(* icd_convert may be NoneObj and is else [option, target_version,         *)
(* billed_version].                                                        *)

EmptyMappings == [k \in {} |-> NoneObj]

\* mappings[k] = v
SetItem(m, k, v) == [x \in DOMAIN m \cup {k} |-> IF x = k THEN v ELSE m[x]]

Lookup(fn, code, as_of_date, code_type) ==
    [fn |-> fn, code |-> code, as_of_date |-> as_of_date, code_type |-> code_type]

Convert(fn, table, code, as_of_date, code_type) ==
    IF fn = "convert_backward"
    THEN convert_backward(table, code, as_of_date, code_type)
    ELSE convert_forward(table, code, as_of_date, code_type)

\* the version numbers and the target effective date, or the exception
\* raised before any lookup (lines 299-341)
ClaimVersions(claim, target_vers) ==
    LET ic     == claim.icd_convert
        manual == ic # NoneObj /\ ic.option = "MANUAL"
        auto   == ic = NoneObj \/ ic.option = "AUTO"
        billed == ICD_determine_drg_version(claim.thru_date)
        tv     == IF manual THEN ic.target_version ELSE target_vers
        bv     == IF manual THEN ic.billed_version ELSE billed
        tvi    == int10(Slice02(tv))
        bvi    == int10(Slice02(bv))
    IN  IF claim.thru_date = NoneObj \/ claim.principal_dx = NONE
        THEN [status |-> "AssertionError"]
        ELSE IF manual /\ ~(/\ ic.target_version # NONE
                            /\ isnumeric(ic.target_version)
                            /\ ic.billed_version # NONE
                            /\ isnumeric(ic.billed_version))
        THEN [status |-> "ValueError"]
        ELSE IF auto /\ target_vers = NONE
        THEN [status |-> "ValueError"]
        ELSE IF auto /\ ~(int_parses(Slice02(billed)) /\ int_parses(Slice02(target_vers)))
        THEN [status |-> "ValueError"]
        ELSE IF ~manual /\ ~auto
        THEN [status |-> "UnboundLocalError"]
        ELSE IF tvi >= 100 \/ bvi >= 100
        THEN [status |-> "ValueError"]
        ELSE [status             |-> "ok",
              target_version     |-> tv,
              billed_version     |-> bv,
              target_version_int |-> tvi,
              billed_version_int |-> bvi,
              target_eff_date    |-> target_eff_date(tvi, tv)]

\* mappings[code] = self.convert_x(code, target_eff_date, code_type), from
\* every state of S: principal_dx and admit_dx
PutMapping(S, fn, table, code, as_of_date, code_type) ==
    {[m     |-> SetItem(st.m, code, o),
      calls |-> Append(st.calls, Lookup(fn, code, as_of_date, code_type))] :
        st \in S, o \in Convert(fn, table, code, as_of_date, code_type)}

\* if code not in mappings: mapping = self.convert_x(...); if mapping is not
\* None: mappings[code] = mapping (conversion_choices, tested too, is a list
\* in every result of convert_x)
PutIfAbsent(S, fn, table, code, as_of_date, code_type) ==
    UNION {IF code \in DOMAIN st.m THEN {st}
           ELSE {[m     |-> IF o # NoneObj
                            THEN SetItem(st.m, code, o) ELSE st.m,
                  calls |-> Append(st.calls,
                                   Lookup(fn, code, as_of_date, code_type))] :
                    o \in Convert(fn, table, code, as_of_date, code_type)} :
           st \in S}

\* the loops over claim.secondary_dxs and claim.inpatient_pxs
RECURSIVE PutEach(_, _, _, _, _, _)
PutEach(S, fn, table, codes, as_of_date, code_type) ==
    IF codes = <<>> THEN S
    ELSE PutEach(PutIfAbsent(S, fn, table, Head(codes), as_of_date, code_type),
                 fn, table, Tail(codes), as_of_date, code_type)

\* one of the two branches of lines 346-383
MapClaim(fn, table, claim, as_of_date) ==
    LET S0 == {[m |-> EmptyMappings, calls |-> <<>>]}
        S1 == PutMapping(S0, fn, table, claim.principal_dx, as_of_date, 0)
        S2 == IF claim.admit_dx # NONE
              THEN PutMapping(S1, fn, table, claim.admit_dx, as_of_date, 0)
              ELSE S1
        S3 == PutEach(S2, fn, table, claim.secondary_dxs, as_of_date, 0)
    IN  PutEach(S3, fn, table, claim.inpatient_pxs, as_of_date, 1)

\* ICDConverter.generate_claim_mappings: the set of results it can produce;
\* calls is the sequence of lookups it made
generate_claim_mappings(table, claim, target_vers) ==
    LET v     == ClaimVersions(claim, target_vers)
        as_of == [kind |-> "datetime", date |-> v.target_eff_date]
        S     == IF v.target_version_int < v.billed_version_int
                 THEN MapClaim("convert_backward", table, claim, as_of)
                 ELSE IF v.target_version_int > v.billed_version_int
                 THEN MapClaim("convert_forward", table, claim, as_of)
                 ELSE {[m |-> EmptyMappings, calls |-> <<>>]}
    IN  IF v.status # "ok" THEN {[status |-> v.status]}
        ELSE {[status         |-> "ok",
               target_version |-> v.target_version,
               billed_version |-> v.billed_version,
               mappings       |-> st.m,
               calls          |-> st.calls] : st \in S}

-----------------------------------------------------------------------------
(* Provider-specific files: tables ipsf and opsf, rows [provider_ccn,      *)
(* national_provider_identifier, effective_date, termination_date] in      *)
(* insertion order; dates are integers YYYYMMDD, NullInt is SQL NULL.      *)

NullInt == -1

\* mutant: ORDER BY effective_date ASC
LatestAtOrBefore_asc(table, column, key, date_int) ==
    LET hits == {i \in DOMAIN table :
                    /\ table[i][column] = key
                    /\ table[i].effective_date # NullInt
                    /\ table[i].effective_date <= date_int}
    IN  {i \in hits :
            \A j \in hits : table[i].effective_date <= table[j].effective_date}

\* WHERE <column> = :key AND effective_date <= :date_int
\* ORDER BY effective_date DESC LIMIT 1: the positions of the rows the
\* statement can return (a comparison with NULL is not true; of several
\* rows of the greatest effective date the database returns any one)
LatestAtOrBefore(table, column, key, date_int) ==
    LET hits == {i \in DOMAIN table :
                    /\ table[i][column] = key
                    /\ table[i].effective_date # NullInt
                    /\ table[i].effective_date <= date_int}
    IN  {i \in hits :
            \A j \in hits : table[j].effective_date <= table[i].effective_date}

IPSF_BY_CCN(table, ccn, date_int) ==
    LatestAtOrBefore(table, "provider_ccn", ccn, date_int)

IPSF_BY_NPI(table, npi, date_int) ==
    LatestAtOrBefore(table, "national_provider_identifier", npi, date_int)

OPSF_BY_CCN(table, ccn, date_int) ==
    LatestAtOrBefore(table, "provider_ccn", ccn, date_int)

OPSF_BY_NPI(table, npi, date_int) ==
    LatestAtOrBefore(table, "national_provider_identifier", npi, date_int)

\* for k, v in extra.items(): if hasattr(self, k): setattr(self, k, v)
ApplyExtra(model, extra) ==
    [f \in DOMAIN model |-> IF f \in DOMAIN extra THEN extra[f] ELSE model[f]]

\* the fields of the row copied to the provider model, the termination date
\* normalised, then the overrides of provider.additional_data applied
ProviderModel(row, extra) ==
    LET copied == [provider_ccn                 |-> row.provider_ccn,
                   national_provider_identifier |-> row.national_provider_identifier,
                   effective_date               |-> row.effective_date,
                   termination_date             |-> row.termination_date]
        normal == IF copied.termination_date \in {19000101, 0, NullInt}
                  THEN [copied EXCEPT !.termination_date = 20991231]
                  ELSE copied
    IN  ApplyExtra(normal, extra)

\* from_db of IPSFProvider and OPSFProvider: the set of outcomes, each the
\* position of the row read (0 when none) and the exception or the model
ProviderFromDb(hits_by_ccn, hits_by_npi, table, provider, extra) ==
    LET hits == IF provider.other_id # "" THEN hits_by_ccn ELSE hits_by_npi
    IN  IF provider.other_id = "" /\ provider.npi = ""
        THEN {[rowid |-> 0, result |-> [status |-> "ValueError"]]}
        ELSE IF hits = {}
        THEN {[rowid |-> 0, result |-> [status |-> "ValueError"]]}
        ELSE {[rowid  |-> i,
               result |-> [status |-> "ok",
                           model  |-> ProviderModel(table[i], extra)]] :
                 i \in hits}

\* IPSFProvider.from_db; provider.additional_data.get("ipsf") is extra
IPSFProvider_from_db(table, provider, date_int) ==
    ProviderFromDb(IPSF_BY_CCN(table, provider.other_id, date_int),
                   IPSF_BY_NPI(table, provider.npi, date_int),
                   table, provider, provider.additional_data)

\* OPSFProvider.from_db; provider.additional_data.get("opsf") is extra
OPSFProvider_from_db(table, provider, date_int) ==
    ProviderFromDb(OPSF_BY_CCN(table, provider.other_id, date_int),
                   OPSF_BY_NPI(table, provider.npi, date_int),
                   table, provider, provider.additional_data)

from_db(kind, table, provider, date_int) ==
    IF kind = "ipsf" THEN IPSFProvider_from_db(table, provider, date_int)
    ELSE OPSFProvider_from_db(table, provider, date_int)

\* the rows of one bulk insert of populate(): batch_size rows or the rest
FirstBatch(rows, batch_size) ==
    SubSeq(rows, 1, IF Len(rows) < batch_size THEN Len(rows) ELSE batch_size)

AfterFirstBatch(rows, batch_size) ==
    SubSeq(rows, (IF Len(rows) < batch_size THEN Len(rows) ELSE batch_size) + 1,
           Len(rows))

-----------------------------------------------------------------------------
(* Inputs of the version functions                                         *)

MinYear == 1990
MaxYear == 2030

VersionDates ==
    {MkDate(y, m, d) : y \in MinYear..MaxYear, m \in 1..12, d \in {1, 15, 30}}
        \ {MkDate(y, 2, 30) : y \in MinYear..MaxYear}

\* the three-character version identifiers: a two-digit prefix without a
\* leading zero (as determine_drg_version writes it), then "0" or "1"
ValidVersionIds == {ToString(p) \o s : p \in 10..99, s \in {"0", "1"}}

-----------------------------------------------------------------------------
(* Specification SpecVersion: the version functions on drawn inputs        *)

IcdIdle ==
    /\ icd_table = <<>>
    /\ icall = NoCall

PopulateIdle ==
    /\ pop_pc = "idle"
    /\ pop_old = <<>>
    /\ pop_new = <<>>
    /\ pop_rest = <<>>
    /\ pop_batch = 0

\* a DrgClient on which nothing runs
DrgIdle == [op |-> "none"]

BuildIdle ==
    /\ zip_table = <<>>
    /\ bcall = NoCall
    /\ fcall = NoCall
    /\ drg = DrgIdle

PsfIdle ==
    /\ psf_kind = "ipsf"
    /\ psf_table = <<>>
    /\ PopulateIdle
    /\ pcall = NoCall
    /\ BuildIdle

icd_vars == <<icd_table, icall>>

build_vars == <<zip_table, bcall, fcall, drg>>

psf_vars == <<psf_kind, psf_table, pop_pc, pop_old, pop_new, pop_rest,
              pop_batch, pcall, build_vars>>

CalendarDates ==
    {d \in [year : MinYear..MaxYear, month : 1..12, day : 1..31] :
        d.day <= DaysInMonth(d.year, d.month)}

InitVersion ==
    /\ vcall \in {[op |-> "date", date |-> d] : d \in VersionDates}
                \cup {[op |-> "version", version |-> v] : v \in ValidVersionIds}
                \cup {[op |-> "day", date |-> d] : d \in CalendarDates}
                \cup {[op |-> "start", version |-> MSDRG_VSTART]}
    /\ IcdIdle
    /\ PsfIdle

\* determine_drg_version(date), by both implementations
DetermineDrgVersion ==
    /\ vcall.op = "date"
    /\ vcall' = [op   |-> "determine_drg_version",
                 date |-> vcall.date,
                 icd  |-> ICD_determine_drg_version(vcall.date),
                 drg  |-> Drg_determine_drg_version(vcall.date)]
    /\ UNCHANGED <<icd_vars, psf_vars>>

\* the effective date of a version as generate_claim_mappings computes it
VersionEffDate(v) == target_eff_date(int10(Slice02(v)), v)

\* the effective date of a version and the version of that date
VersionRoundTrip ==
    /\ vcall.op = "version"
    /\ vcall' = [op      |-> "round_trip",
                 version |-> vcall.version,
                 eff     |-> VersionEffDate(vcall.version),
                 back    |-> ICD_determine_drg_version(VersionEffDate(vcall.version))]
    /\ UNCHANGED <<icd_vars, psf_vars>>

\* determine_drg_version of a day and of the day after it, by both
\* implementations
AdvanceDay ==
    /\ vcall.op = "day"
    /\ vcall' = [op         |-> "advance_day",
                 date       |-> vcall.date,
                 next       |-> NextDay(vcall.date),
                 icd_before |-> ICD_determine_drg_version(vcall.date),
                 icd_after  |-> ICD_determine_drg_version(NextDay(vcall.date)),
                 drg_before |-> Drg_determine_drg_version(vcall.date),
                 drg_after  |-> Drg_determine_drg_version(NextDay(vcall.date))]
    /\ UNCHANGED <<icd_vars, psf_vars>>

\* the last version the walk increments has this two-digit prefix
MaxWalkPrefix == 97

\* curr_version = self.increment_version(curr_version), from MSDRG_VSTART on
IncrementVersion ==
    /\ vcall.op \in {"start", "increment_version"}
    /\ LET curr_version == IF vcall.op = "start" THEN vcall.version
                           ELSE vcall.result
       IN  /\ int10(Slice02(curr_version)) <= MaxWalkPrefix
           /\ vcall' = [op      |-> "increment_version",
                        version |-> curr_version,
                        result  |-> increment_version(curr_version)]
    /\ UNCHANGED <<icd_vars, psf_vars>>

NextVersion ==
    DetermineDrgVersion \/ VersionRoundTrip \/ AdvanceDay \/ IncrementVersion

SpecVersion == InitVersion /\ [][NextVersion]_vars

\* C5: the version of a date is str(base+1)+"0" in October-December,
\* str(base)+"1" in April-September and str(base-1)+"0" in January-March,
\* with base = year - 1983; 2025-07-30 gives "421", 2025-10-01 gives "430",
\* 2025-03-01 gives "410"; ICDConverter and DrgClient agree on every date.
C5_VersionForDate ==
    vcall.op = "determine_drg_version" =>
        LET base == vcall.date.year - 1983
            m    == vcall.date.month
        IN  /\ vcall.icd = vcall.drg
            /\ (m \in 10..12 => vcall.icd = ToString(base + 1) \o "0")
            /\ (m \in 4..9 => vcall.icd = ToString(base) \o "1")
            /\ (m \in 1..3 => vcall.icd = ToString(base - 1) \o "0")
            /\ (vcall.date = MkDate(2025, 7, 30) => vcall.icd = "421")
            /\ (vcall.date = MkDate(2025, 10, 1) => vcall.icd = "430")
            /\ (vcall.date = MkDate(2025, 3, 1) => vcall.icd = "410")

C5_Witness ==
    /\ vcall.op = "determine_drg_version"
    /\ vcall.date = MkDate(2025, 3, 1)
    /\ vcall.icd = "410"
    /\ vcall.drg = "410"

\* C6: for every valid three-character version id v, the version of the
\* effective date of v is v.
C6_RoundTrip ==
    vcall.op = "round_trip" => vcall.back = vcall.version

C6_Witness ==
    /\ vcall.op = "round_trip"
    /\ vcall.version = "420"
    /\ vcall.eff = MkDate(2024, 10, 1)
    /\ vcall.back = "420"

-----------------------------------------------------------------------------
(* Specification SpecICD: lookups and claim conversion on a loaded table   *)

MaxRows == 2
MaxSecondary == 1
MaxProcedures == 1

\* codes as the loaders store them (without periods)
IcdCodes == {"A01", "B02"}

\* codes as a claim writes them; "A0.1" is "A01" with its period
ClaimCodes == {"A01", "A0.1", "B02"}

EffDates == {MkDate(2024, 1, 1), MkDate(2024, 10, 1)}

IcdRows ==
    [previous_code : IcdCodes, current_code : IcdCodes,
     effective_date : EffDates, code_type : {0, 1}]

\* the tables of at most MaxRows rows, equal rows included
IcdTables == SeqsUpTo(IcdRows, MaxRows)

AsOfDates ==
    {[kind |-> "datetime", date |-> d] :
        d \in {MkDate(2023, 10, 1), MkDate(2024, 4, 1), MkDate(2024, 10, 1)}}
    \cup {[kind |-> "str", text |-> "2024-4- 1"]}

ClaimVersionIds == {"410", "411", "420"}

ConvertOptions ==
    {[option |-> "MANUAL", target_version |-> t, billed_version |-> b] :
        t \in ClaimVersionIds, b \in ClaimVersionIds}
    \cup {[option |-> "MANUAL", target_version |-> "4x0", billed_version |-> "410"],
          [option |-> "MANUAL", target_version |-> "1000", billed_version |-> "410"],
          [option |-> "AUTO", target_version |-> NONE, billed_version |-> NONE],
          [option |-> "NONE", target_version |-> NONE, billed_version |-> NONE],
          [option |-> NONE, target_version |-> NONE, billed_version |-> NONE],
          NoneObj}

\* a call is made on the loaded table; icall records the call and its result
\* thru_date matters only when the billed version is derived from it
ThruDates(ic) ==
    IF ic = NoneObj \/ ic.option = "AUTO"
    THEN {MkDate(2024, 5, 15), MkDate(2024, 11, 15)}
    ELSE {MkDate(2024, 11, 15)}

TargetVers(ic) ==
    IF ic = NoneObj \/ ic.option = "AUTO"
    THEN {"410", "420", NONE}
    ELSE {NONE}

Claims ==
    {[thru_date      |-> d,
      principal_dx   |-> p,
      admit_dx       |-> a,
      secondary_dxs  |-> sd,
      inpatient_pxs  |-> px,
      icd_convert    |-> ic] :
        p \in ClaimCodes, a \in ClaimCodes \cup {NONE},
        sd \in SeqsUpTo(ClaimCodes, MaxSecondary),
        px \in SeqsUpTo(ClaimCodes, MaxProcedures),
        ic \in ConvertOptions,
        d \in {MkDate(2024, 5, 15), MkDate(2024, 11, 15)}}

InitICD ==
    /\ icd_table \in IcdTables
    /\ icall = NoCall
    /\ vcall = NoCall
    /\ PsfIdle

ConvertBackward ==
    /\ icall = NoCall
    /\ \E code \in ClaimCodes, as_of \in AsOfDates, code_type \in {0, 1} :
       \E r \in convert_backward(icd_table, code, as_of, code_type) :
          icall' = [op |-> "convert_backward", code |-> code,
                    as_of_date |-> as_of, code_type |-> code_type,
                    result |-> r]
    /\ UNCHANGED <<vcall, icd_table, psf_vars>>

ConvertForward ==
    /\ icall = NoCall
    /\ \E code \in ClaimCodes, as_of \in AsOfDates, code_type \in {0, 1} :
       \E r \in convert_forward(icd_table, code, as_of, code_type) :
          icall' = [op |-> "convert_forward", code |-> code,
                    as_of_date |-> as_of, code_type |-> code_type,
                    result |-> r]
    /\ UNCHANGED <<vcall, icd_table, psf_vars>>

GenerateClaimMappings ==
    /\ icall = NoCall
    /\ \E claim \in Claims :
          /\ claim.thru_date \in ThruDates(claim.icd_convert)
          /\ \E target_vers \in TargetVers(claim.icd_convert) :
             \E r \in generate_claim_mappings(icd_table, claim, target_vers) :
                icall' = [op |-> "generate_claim_mappings", claim |-> claim,
                          target_vers |-> target_vers, result |-> r]
    /\ UNCHANGED <<vcall, icd_table, psf_vars>>

NextICD == ConvertBackward \/ ConvertForward \/ GenerateClaimMappings

SpecICD == InitICD /\ [][NextICD]_vars

-----------------------------------------------------------------------------
(* Properties of the lookups                                               *)

IsConvertCall(fn) == icall.op = fn

\* the rows of the loaded table that qualify for the recorded convert_backward
QualifyingBackward ==
    {i \in DOMAIN icd_table :
        /\ icd_table[i].current_code = StripDots(icall.code)
        /\ icd_table[i].code_type = icall.code_type
        /\ DateKey(icd_table[i].effective_date)
              > DateKey(query_date(icall.as_of_date))}

\* the rows of the loaded table that qualify for the recorded convert_forward
QualifyingForward ==
    {i \in DOMAIN icd_table :
        /\ icd_table[i].previous_code = StripDots(icall.code)
        /\ icd_table[i].code_type = icall.code_type
        /\ DateKey(icd_table[i].effective_date)
              <= DateKey(query_date(icall.as_of_date))}

\* C2: convert_backward returns, as the sole candidate, the previous_code of
\* the qualifying entry (current_code = code, effective_date > as_of) with
\* the SMALLEST effective_date.
C2_BackwardEarliest ==
    (IsConvertCall("convert_backward") /\ QualifyingBackward # {}) =>
        /\ icall.result # NoneObj
        /\ \E r \in QualifyingBackward :
              /\ \A q \in QualifyingBackward :
                    DateKey(icd_table[r].effective_date)
                        <= DateKey(icd_table[q].effective_date)
              /\ icall.result.conversion_choices = <<icd_table[r].previous_code>>

\* C3: convert_forward returns the current_code of every entry with
\* previous_code = code and effective_date <= as_of, ordered by ascending
\* effective_date; entries after as_of contribute nothing.
C3_ForwardAscending ==
    IsConvertCall("convert_forward") =>
        IF icall.result = NoneObj THEN QualifyingForward = {}
        ELSE LET choices == icall.result.conversion_choices
             IN  /\ Len(choices) = Cardinality(QualifyingForward)
                 /\ Len(choices) > 0
                 /\ \E f \in [DOMAIN choices -> QualifyingForward] :
                       /\ \A i, j \in DOMAIN choices : i # j => f[i] # f[j]
                       /\ \A i \in DOMAIN choices :
                             choices[i] = icd_table[f[i]].current_code
                       /\ \A i, j \in DOMAIN choices :
                             i < j => DateKey(icd_table[f[i]].effective_date)
                                         <= DateKey(icd_table[f[j]].effective_date)

\* two entries of different dates qualify and come out oldest first
C3_Witness ==
    /\ IsConvertCall("convert_forward")
    /\ icall.code = "A0.1"
    /\ icd_table = <<[previous_code |-> "A01", current_code |-> "A01",
                       effective_date |-> MkDate(2024, 10, 1), code_type |-> 0],
                      [previous_code |-> "A01", current_code |-> "B02",
                       effective_date |-> MkDate(2024, 1, 1), code_type |-> 0]>>
    /\ icall.result # NoneObj
    /\ icall.result.conversion_choices = <<"B02", "A01">>

-----------------------------------------------------------------------------
(* Properties of generate_claim_mappings                                   *)

\* a call of generate_claim_mappings that returned its output
GenReturned ==
    icall.op = "generate_claim_mappings" /\ icall.result.status = "ok"

GenDxCodes ==
    {icall.claim.principal_dx} \cup ({icall.claim.admit_dx} \ {NONE})
        \cup Range(icall.claim.secondary_dxs)

GenPxCodes == Range(icall.claim.inpatient_pxs)

GenClaimCodes == GenDxCodes \cup GenPxCodes

GenTargetPrefix == int10(Slice02(icall.result.target_version))

GenBilledPrefix == int10(Slice02(icall.result.billed_version))

GenAsOf == VersionEffDate(icall.result.target_version)

\* the rows that qualify for code k in code system t, in the direction the
\* recorded call converts
GenQualifying(k, t) ==
    {i \in DOMAIN icd_table :
        /\ icd_table[i].code_type = t
        /\ IF GenTargetPrefix < GenBilledPrefix
           THEN /\ icd_table[i].current_code = StripDots(k)
                /\ DateKey(icd_table[i].effective_date) > DateKey(GenAsOf)
           ELSE /\ icd_table[i].previous_code = StripDots(k)
                /\ DateKey(icd_table[i].effective_date) <= DateKey(GenAsOf)}

\* code k of the claim has no qualifying entry in any system it is billed in
GenUnmapped(k) ==
    /\ k \in GenDxCodes => GenQualifying(k, 0) = {}
    /\ k \in GenPxCodes => GenQualifying(k, 1) = {}

GenLookedUp(fn, k) ==
    \E i \in DOMAIN icall.result.calls :
        /\ icall.result.calls[i].fn = fn
        /\ icall.result.calls[i].code = k
        /\ icall.result.calls[i].as_of_date = [kind |-> "datetime", date |-> GenAsOf]

\* C4: comparing the version identifiers as wholes, a target version below
\* the billed version resolves every claim code with convert_backward and a
\* target version above it resolves every claim code with convert_forward,
\* as of the effective date of the target version.
C4_DirectionWholeIds ==
    GenReturned =>
        LET t == int10(icall.result.target_version)
            b == int10(icall.result.billed_version)
        IN  /\ t < b => \A k \in GenClaimCodes : GenLookedUp("convert_backward", k)
            /\ t > b => \A k \in GenClaimCodes : GenLookedUp("convert_forward", k)

\* C7: the keys of the mappings returned by generate_claim_mappings are
\* exactly the distinct codes of the claim, each once (stated for the calls
\* that convert by the code's own comparison of the versions).
C7_KeysAreClaimCodes ==
    (GenReturned /\ GenTargetPrefix # GenBilledPrefix) =>
        DOMAIN icall.result.mappings = GenClaimCodes

\* C8: a code billed both as a diagnosis and as a procedure is resolved a
\* second time, in the procedure code system.
C8_ProcedureResolved ==
    (GenReturned /\ GenTargetPrefix # GenBilledPrefix) =>
        \A k \in GenDxCodes \cap GenPxCodes :
            \E i \in DOMAIN icall.result.calls :
                /\ icall.result.calls[i].code = k
                /\ icall.result.calls[i].code_type = 1

\* C9: a code without qualifying entry yields a result object with
\* original_code = code and an empty candidate list: convert_backward and
\* convert_forward return it, and generate_claim_mappings holds it under
\* the key of the code.
C9_EmptyCandidates ==
    /\ (IsConvertCall("convert_backward") /\ QualifyingBackward = {}) =>
            icall.result = ICD10CodeOutput(icall.code, <<>>)
    /\ (IsConvertCall("convert_forward") /\ QualifyingForward = {}) =>
            icall.result = ICD10CodeOutput(icall.code, <<>>)
    /\ (GenReturned /\ GenTargetPrefix # GenBilledPrefix) =>
            \A k \in GenClaimCodes :
                GenUnmapped(k) =>
                    /\ k \in DOMAIN icall.result.mappings
                    /\ icall.result.mappings[k] = ICD10CodeOutput(k, <<>>)

-----------------------------------------------------------------------------
(* Specifications SpecPSF (lookups on a loaded provider table) and         *)
(* SpecReload (lookups while populate() reloads the table)                 *)

MaxPsfRows == 2
MaxCsvRows == 2
MaxTableRows == 3
MaxBatchSize == 2

PsfRows ==
    [provider_ccn : {"010001", "020002"},
     national_provider_identifier : {"1234567893"},
     effective_date : {20200101, 20230101, NullInt},
     termination_date : {19000101, 20221231}]

PsfTables == SeqsUpTo(PsfRows, MaxPsfRows)

\* the rows of the files reloaded under SpecReload
CsvRows ==
    [provider_ccn : {"010001"},
     national_provider_identifier : {"1234567893"},
     effective_date : {20200101, 20230101},
     termination_date : {20221231}]

CsvFiles == SeqsUpTo(CsvRows, MaxCsvRows)

NoExtra == [f \in {} |-> 0]

Providers ==
    [other_id : {"", "010001"}, npi : {"", "1234567893"},
     additional_data : {NoExtra, [termination_date |-> 0]}]

AsOfInts == {20190101, 20220601, 20230601}

pop_vars == <<pop_pc, pop_old, pop_new, pop_rest, pop_batch>>

InitPSF ==
    /\ psf_kind \in {"ipsf", "opsf"}
    /\ psf_table \in PsfTables
    /\ PopulateIdle
    /\ pcall = NoCall
    /\ BuildIdle
    /\ vcall = NoCall
    /\ IcdIdle

InitReload ==
    /\ psf_kind \in {"ipsf", "opsf"}
    /\ psf_table \in CsvFiles
    /\ PopulateIdle
    /\ pcall = NoCall
    /\ BuildIdle
    /\ vcall = NoCall
    /\ IcdIdle

\* from_db(engine, provider, date_int) on the committed rows; pcall records
\* the call, its result and the populate() running at that moment
FromDb ==
    /\ pcall = NoCall
    /\ \E provider \in Providers, date_int \in AsOfInts :
       \E o \in from_db(psf_kind, psf_table, provider, date_int) :
          pcall' = [op |-> "from_db", provider |-> provider,
                    date_int |-> date_int, rowid |-> o.rowid,
                    result |-> o.result, during |-> pop_pc,
                    old |-> pop_old, new |-> pop_new]
    /\ UNCHANGED <<vcall, icd_vars, psf_kind, psf_table, pop_vars, build_vars>>

\* populate(download, batch_size, truncate) is called: the CSV file is read
PopulateBegin ==
    /\ pop_pc = "idle"
    /\ \E csv \in CsvFiles, batch_size \in 1..MaxBatchSize, truncate \in BOOLEAN :
          /\ truncate \/ Len(psf_table) + Len(csv) <= MaxTableRows
          /\ pop_pc' = IF truncate THEN "truncate" ELSE "insert"
          /\ pop_old' = psf_table
          /\ pop_new' = IF truncate THEN csv ELSE psf_table \o csv
          /\ pop_rest' = csv
          /\ pop_batch' = batch_size
    /\ UNCHANGED <<vcall, icd_vars, psf_kind, psf_table, pcall, build_vars>>

\* sess.query(IPSF).delete(); sess.commit()
PopulateTruncate ==
    /\ pop_pc = "truncate"
    /\ psf_table' = <<>>
    /\ pop_pc' = "insert"
    /\ UNCHANGED <<vcall, icd_vars, psf_kind, pop_old, pop_new, pop_rest,
                   pop_batch, pcall, build_vars>>

\* sess.execute(insert_stmt, batch); sess.commit()
PopulateInsertBatch ==
    /\ pop_pc = "insert"
    /\ pop_rest # <<>>
    /\ psf_table' = psf_table \o FirstBatch(pop_rest, pop_batch)
    /\ pop_rest' = AfterFirstBatch(pop_rest, pop_batch)
    /\ UNCHANGED <<vcall, icd_vars, psf_kind, pop_pc, pop_old, pop_new,
                   pop_batch, pcall, build_vars>>

\* return total
PopulateReturn ==
    /\ pop_pc = "insert"
    /\ pop_rest = <<>>
    /\ pop_pc' = "idle"
    /\ UNCHANGED <<vcall, icd_vars, psf_kind, psf_table, pop_old, pop_new,
                   pop_rest, pop_batch, pcall, build_vars>>

NextPSF == FromDb

SpecPSF == InitPSF /\ [][NextPSF]_vars

\* the recorded lookup is the last step followed: it can fall at any point
\* of any number of reloads
Populate ==
    /\ pcall = NoCall
    /\ \/ PopulateBegin
       \/ PopulateTruncate
       \/ PopulateInsertBatch
       \/ PopulateReturn

NextReload == FromDb \/ Populate

SpecReload == InitReload /\ [][NextReload]_vars

\* the positions of the rows of key K that qualify for the recorded from_db
PsfKeyOf(row) ==
    IF pcall.provider.other_id # "" THEN row.provider_ccn
    ELSE row.national_provider_identifier

PsfKey ==
    IF pcall.provider.other_id # "" THEN pcall.provider.other_id
    ELSE pcall.provider.npi

PsfQualifying ==
    {i \in DOMAIN psf_table :
        /\ PsfKeyOf(psf_table[i]) = PsfKey
        /\ psf_table[i].effective_date # NullInt
        /\ psf_table[i].effective_date <= pcall.date_int}

\* C1: the record from_db uses for key K and as-of date D is the record of K
\* with the greatest effective_date <= D; with records at 2020-01-01 and
\* 2023-01-01, D = 2022-06-01 selects the first and D = 2023-06-01 the second.
C1_LatestAtOrBefore ==
    (pcall.op = "from_db" /\ PsfKey # "") =>
        /\ pcall.result.status = "ok" => pcall.rowid \in PsfQualifying
        /\ PsfQualifying # {} =>
              /\ pcall.result.status = "ok"
              /\ pcall.rowid \in PsfQualifying
              /\ \A j \in PsfQualifying :
                    psf_table[j].effective_date
                        <= psf_table[pcall.rowid].effective_date
              /\ pcall.result.model.provider_ccn
                    = psf_table[pcall.rowid].provider_ccn
              /\ pcall.result.model.effective_date
                    = psf_table[pcall.rowid].effective_date
        /\ ({20200101, 20230101} =
                {psf_table[j].effective_date : j \in PsfQualifying}
              => pcall.result.model.effective_date = 20230101)
        /\ (pcall.date_int = 20220601 /\ PsfQualifying # {}
              => pcall.result.model.effective_date = 20200101)

C1_Witness ==
    /\ pcall.op = "from_db"
    /\ pcall.provider.other_id = "010001"
    /\ pcall.date_int = 20220601
    /\ Len(psf_table) = 2
    /\ psf_table[1].provider_ccn = "010001"
    /\ psf_table[1].effective_date = 20230101
    /\ psf_table[2].provider_ccn = "010001"
    /\ psf_table[2].effective_date = 20200101
    /\ pcall.rowid = 2
    /\ pcall.result.status = "ok"
    /\ pcall.result.model.effective_date = 20200101

\* C10: a lookup made while populate() runs returns what it returns on the
\* complete old table or on the complete new table.
C10_NoPartialTable ==
    (pcall.op = "from_db" /\ pcall.during # "idle") =>
        pcall.result \in
            {o.result : o \in from_db(psf_kind, pcall.old, pcall.provider,
                                      pcall.date_int)}
            \cup {o.result : o \in from_db(psf_kind, pcall.new, pcall.provider,
                                           pcall.date_int)}

-----------------------------------------------------------------------------
(* Loading the conversion table: populate_database                         *)

\* the sequences of a sequence, one after the other
RECURSIVE Flatten(_)
Flatten(seqs) ==
    IF seqs = <<>> THEN <<>> ELSE Head(seqs) \o Flatten(Tail(seqs))

\* mutant: the codes are stored as the file writes them
populate_database_dotted(table, entries) ==
    IF \E k \in DOMAIN entries : ~strptime_parses(entries[k].effective_date)
    THEN [raised |-> "ValueError", table |-> table]
    ELSE [raised |-> NONE,
          table  |-> table \o Flatten(
              [k \in DOMAIN entries |->
                  [i \in DOMAIN entries[k].previous_codes |->
                      [previous_code  |-> entries[k].previous_codes[i],
                       current_code   |-> entries[k].current_code,
                       effective_date |-> strptime_date(entries[k].effective_date),
                       code_type      |-> 0]]])]

\* populate_database on a table holding the rows of table: entries are the
\* lines [current_code, effective_date, previous_codes] of the parsed file.
\* Every line adds one row per previous code, in order, both codes without
\* their periods, code_type by its column default; the session is committed
\* after the last line, so a line whose date strptime rejects leaves the
\* table as it was. The result is [raised, table].
populate_database(table, entries) ==
    IF \E k \in DOMAIN entries : ~strptime_parses(entries[k].effective_date)
    THEN [raised |-> "ValueError", table |-> table]
    ELSE [raised |-> NONE,
          table  |-> table \o Flatten(
              [k \in DOMAIN entries |->
                  [i \in DOMAIN entries[k].previous_codes |->
                      [previous_code  |-> StripDots(entries[k].previous_codes[i]),
                       current_code   |-> StripDots(entries[k].current_code),
                       effective_date |-> strptime_date(entries[k].effective_date),
                       code_type      |-> 0]]])]

-----------------------------------------------------------------------------
(* Provider lookups: no qualifying record, ties, termination date          *)

\* C12: when no record of the key has effective_date <= the as-of date (the
\* key may be unknown), from_db returns an empty result and raises no error.
C12_EmptyNotError ==
    (pcall.op = "from_db" /\ PsfKey # "" /\ PsfQualifying = {}) =>
        pcall.result.status # "ValueError"

\* the qualifying records of the greatest effective date
PsfTied ==
    {i \in PsfQualifying :
        \A j \in PsfQualifying :
            psf_table[j].effective_date <= psf_table[i].effective_date}

\* C13: when several records of the key share the greatest effective_date
\* <= as-of, from_db returns the one inserted last.
C13_TieLastWins ==
    (pcall.op = "from_db" /\ PsfKey # "" /\ Cardinality(PsfTied) >= 2) =>
        /\ pcall.result.status = "ok"
        /\ pcall.rowid \in PsfTied
        /\ \A j \in PsfTied : j <= pcall.rowid

\* C14: the termination_date of a provider model filled by from_db is never
\* 19000101, 0 or null; a record holding such a value gets 20991231,
\* whatever provider.additional_data overrides.
C14_TerminationNormalised ==
    (pcall.op = "from_db" /\ pcall.result.status = "ok") =>
        /\ pcall.result.model.termination_date \notin {19000101, 0, NullInt}
        /\ psf_table[pcall.rowid].termination_date \in {19000101, 0, NullInt}
              => pcall.result.model.termination_date = 20991231

-----------------------------------------------------------------------------
(* Specification SpecLoad: lookups on a table loaded by populate_database  *)

MaxEntries == 2
MaxPrevious == 1

\* codes as the conversion table writes them
SourceCodes == {"A0.1", "B02"}

\* the effective dates as the parsed file writes them: "2024-1- 1" is a date
\* strptime reads as 2024-01-01, "April 2024" a text it rejects
IcdEntries ==
    [current_code : SourceCodes,
     effective_date : {"2024-1- 1", "2024-10-01", "April 2024"},
     previous_codes : SeqsUpTo(SourceCodes, MaxPrevious) \ {<<>>}]

IcdEntryBatches == SeqsUpTo(IcdEntries, MaxEntries)

\* the rows of an earlier load
LoadedBefore ==
    {<<>>,
     <<[previous_code |-> "A01", current_code |-> "B02",
        effective_date |-> MkDate(2024, 1, 1), code_type |-> 0]>>}

InitLoad ==
    /\ icd_table \in LoadedBefore
    /\ icall = NoCall
    /\ vcall = NoCall
    /\ PsfIdle

\* populate_database(db, json_path)
PopulateDatabase ==
    /\ bcall = NoCall
    /\ icall = NoCall
    /\ \E entries \in IcdEntryBatches :
          LET done == populate_database(icd_table, entries)
          IN  /\ icd_table' = done.table
              /\ bcall' = [op      |-> "populate_database",
                           entries |-> entries,
                           old     |-> icd_table,
                           raised  |-> done.raised]
    /\ UNCHANGED <<vcall, icall, psf_kind, psf_table, pop_vars, pcall, zip_table,
                   fcall, drg>>

NextLoad == PopulateDatabase \/ ConvertBackward \/ ConvertForward

SpecLoad == InitLoad /\ [][NextLoad]_vars

\* the pairs <<e, i>> of a loaded entry and the position of one of its
\* previous codes
LoadedPairs ==
    {x \in Range(bcall.entries) \X (1..MaxPrevious) :
        x[2] \in DOMAIN x[1].previous_codes}

\* the pairs <<e, i>> of a loaded entry and one of its previous codes for
\* which the recorded lookup is the forward lookup of that previous code at
\* or after the effective date of e, no other row of the table having this
\* previous code
LoadedForward ==
    IF bcall = NoCall \/ bcall.raised # NONE \/ icall.op # "convert_forward"
    THEN {}
    ELSE {x \in LoadedPairs :
            /\ icall.code = x[1].previous_codes[x[2]]
            /\ icall.code_type = 0
            /\ DateLE(strptime_date(x[1].effective_date),
                      query_date(icall.as_of_date))
            /\ \A y \in LoadedPairs :
                  StripDots(y[1].previous_codes[y[2]]) = StripDots(icall.code)
                      => y = x
            /\ Cardinality({k \in DOMAIN bcall.entries : bcall.entries[k] = x[1]})
                  = 1
            /\ \A r \in Range(bcall.old) : r.previous_code # StripDots(icall.code)}

\* the same for the backward lookup of the current code of e before its
\* effective date, no other entry having this current code
LoadedBackward ==
    IF bcall = NoCall \/ bcall.raised # NONE \/ icall.op # "convert_backward"
    THEN {}
    ELSE {x \in LoadedPairs :
            /\ icall.code = x[1].current_code
            /\ icall.code_type = 0
            /\ DateGT(strptime_date(x[1].effective_date),
                      query_date(icall.as_of_date))
            /\ \A y \in LoadedPairs :
                  StripDots(y[1].current_code) = StripDots(icall.code)
                      => y = x
            /\ \A r \in Range(bcall.old) : r.current_code # StripDots(icall.code)}

\* C15 as stated: for an entry loaded from previous code p, current code c
\* and effective date e, convert_forward(p, as_of >= e) returns [c] and
\* convert_backward(c, as_of < e) returns [p], both as the table writes them.
C15_SymmetryAsWritten ==
    /\ \A x \in LoadedForward :
          /\ icall.result # NoneObj
          /\ icall.result.conversion_choices = <<x[1].current_code>>
    /\ \A x \in LoadedBackward :
          /\ icall.result # NoneObj
          /\ icall.result.conversion_choices = <<x[1].previous_codes[x[2]]>>

\* C15, amended: the candidates are the codes of the entry without their
\* periods: forward gives [c without periods], backward [p without periods].
C15_SymmetryStripped ==
    /\ \A x \in LoadedForward :
          /\ icall.result # NoneObj
          /\ icall.result.original_code = icall.code
          /\ icall.result.conversion_choices = <<StripDots(x[1].current_code)>>
    /\ \A x \in LoadedBackward :
          /\ icall.result # NoneObj
          /\ icall.result.original_code = icall.code
          /\ icall.result.conversion_choices
                = <<StripDots(x[1].previous_codes[x[2]])>>

\* the entry {previous "A0.1", current "B02", 2024-01-01} looked up backward
\* from "B02" before its effective date
C15_Witness ==
    /\ bcall # NoCall
    /\ bcall.op = "populate_database"
    /\ \E x \in LoadedBackward :
          /\ x[1].previous_codes[x[2]] = "A0.1"
          /\ x[1].current_code = "B02"
          /\ icall.result # NoneObj
          /\ icall.result.conversion_choices = <<"A01">>

-----------------------------------------------------------------------------
(* generate_claim_mappings: equal versions, version numbers out of range   *)

\* C16: with target_version equal to billed_version no lookup is made and
\* every code of the claim is reported with candidates [code].
C16_EqualIdentity ==
    (GenReturned /\ icall.result.target_version = icall.result.billed_version) =>
        /\ icall.result.calls = <<>>
        /\ \A k \in GenClaimCodes :
              /\ k \in DOMAIN icall.result.mappings
              /\ icall.result.mappings[k] # NoneObj
              /\ icall.result.mappings[k].conversion_choices = <<k>>

\* the number a version identifier of digits writes before its last digit
VersionPrefix(v) == IntOfDigits(SubSeq(v, 1, Len(v) - 1), 0)

\* C17: a request whose target or billed version has a numeric prefix >= 100
\* is rejected with the invalid-version error before any lookup; it is never
\* cut down to a smaller version and converted.
C17_RejectsOutOfRange ==
    (/\ icall.op = "generate_claim_mappings"
     /\ icall.claim.icd_convert # NoneObj
     /\ icall.claim.icd_convert.option = "MANUAL"
     /\ isnumeric(icall.claim.icd_convert.target_version)
     /\ isnumeric(icall.claim.icd_convert.billed_version)
     /\ \/ VersionPrefix(icall.claim.icd_convert.target_version) >= 100
        \/ VersionPrefix(icall.claim.icd_convert.billed_version) >= 100)
    => icall.result.status = "ValueError"

-----------------------------------------------------------------------------
(* The version of a date, day by day                                       *)

\* C18: from one day to the next the version of the date changes only when
\* the next day is April 1 or October 1; it is constant over each half-year
\* October 1 - March 31 and April 1 - September 30.
C18_ChangesOnlyAtHalfYear ==
    vcall.op = "advance_day" =>
        ((vcall.icd_before # vcall.icd_after \/ vcall.drg_before # vcall.drg_after)
            => (vcall.next.day = 1 /\ vcall.next.month \in {4, 10}))

\* the April 1 or October 1 that follows the April 1 or October 1 d
NextHalfYear(d) ==
    IF d.month = 4 THEN MkDate(d.year, 10, 1) ELSE MkDate(d.year + 1, 4, 1)

\* C19: increment_version adds 9 to a version ending in "1" (421 -> 430)
\* and 1 to a version ending in "0" (430 -> 431); walking from "400", each
\* result is the version whose effective date is the April 1 or October 1
\* that follows the effective date of the argument.
C19_IncrementWalk ==
    vcall.op = "increment_version" =>
        /\ endswith(vcall.version, "1")
              => vcall.result = ToString(int10(vcall.version) + 9)
        /\ endswith(vcall.version, "0")
              => vcall.result = ToString(int10(vcall.version) + 1)
        /\ endswith(vcall.version, "0") \/ endswith(vcall.version, "1")
        /\ VersionEffDate(vcall.result) = NextHalfYear(VersionEffDate(vcall.version))
        /\ ICD_determine_drg_version(VersionEffDate(vcall.result)) = vcall.result
        /\ vcall.version = "421" => vcall.result = "430"
        /\ vcall.version = "430" => vcall.result = "431"

C19_Witness ==
    /\ vcall.op = "increment_version"
    /\ vcall.version = "421"
    /\ vcall.result = "430"
    /\ VersionEffDate(vcall.version) = MkDate(2025, 4, 1)
    /\ VersionEffDate(vcall.result) = MkDate(2025, 10, 1)

-----------------------------------------------------------------------------
(* Specification SpecDrg: the codes DrgClient submits to the grouper       *)

\* DrgClient.mapped_dx_or_self; mappings is the output of
\* generate_claim_mappings or NoneObj
mapped_dx_or_self(dx, mappings) ==
    IF mappings = NoneObj THEN dx
    ELSE LET mapped == IF dx \in DOMAIN mappings.mappings
                       THEN mappings.mappings[dx] ELSE NoneObj
         IN  IF mapped = NoneObj \/ Len(mapped.conversion_choices) = 0 THEN dx
             ELSE mapped.conversion_choices[1]

\* DrgClient.mapped_op_or_self
mapped_op_or_self(op, mappings) ==
    IF mappings = NoneObj THEN op
    ELSE LET mapped == IF op \in DOMAIN mappings.mappings
                       THEN mappings.mappings[op] ELSE NoneObj
         IN  IF mapped = NoneObj \/ Len(mapped.conversion_choices) = 0 THEN op
             ELSE mapped.conversion_choices[1]

\* the number of the day d, counted from 1970-01-01
DayNumber(d) ==
    LET y   == IF d.month <= 2 THEN d.year - 1 ELSE d.year
        era == y \div 400
        yoe == y - era * 400
        mp  == IF d.month > 2 THEN d.month - 3 ELSE d.month + 9
        doy == (153 * mp + 2) \div 5 + d.day - 1
        doe == yoe * 365 + yoe \div 4 - yoe \div 100 + doy
    IN  era * 146097 + doe - 719468

\* DrgClient.calculate_age_in_days (from_date and date_of_birth are datetime
\* values at midnight, or None): [status, days]
calculate_age_in_days(claim) ==
    IF claim.patient.date_of_birth = NoneObj THEN [status |-> "ok", days |-> 0]
    ELSE IF claim.from_date = NoneObj THEN [status |-> "ValueError", days |-> 0]
    ELSE LET age_in_days == DayNumber(claim.from_date)
                               - DayNumber(claim.patient.date_of_birth)
         IN  [status |-> "ok",
              days   |-> IF age_in_days > 0 THEN age_in_days ELSE 0]

\* str(s).upper().startswith(c) for the capital letter c and its small
\* letter l
upper_startswith(s, c, l) == startswith(s, c) \/ startswith(s, l)

\* DrgClient.create_drg_input: [status, drg_input], status "ok" with the
\* fields set on the grouper input (NoneObj or NONE for a field left unset),
\* or the error raised. A claim is [from_date, thru_date, los,
\* patient_status, patient, principal_dx, admit_dx, secondary_dxs,
\* inpatient_pxs, icd_convert], patient is [age, date_of_birth, sex]. A claim
\* without principal diagnosis (principal_dx NONE) raises ValueError after
\* the patient data have been set.
create_drg_input(claim, mappings) ==
    LET patient      == claim.patient
        newborn      == patient.age = 0 /\ patient.date_of_birth # NoneObj
        age_in_days  == calculate_age_in_days(claim)
    IN  IF ~(patient.age > 0) /\ ~newborn THEN [status |-> "ValueError"]
        ELSE IF newborn /\ age_in_days.status # "ok"
        THEN [status |-> age_in_days.status]
        ELSE IF claim.patient_status # "" /\ ~int_parses(claim.patient_status)
        THEN [status |-> "ValueError"]
        ELSE IF claim.principal_dx = NONE
        THEN [status |-> "ValueError"]
        ELSE
        [status    |-> "ok",
         drg_input |->
            [age_in_years       |-> patient.age,
             age_days_admit     |-> IF newborn THEN age_in_days.days ELSE NullInt,
             age_days_discharge |-> IF newborn THEN age_in_days.days + claim.los
                                    ELSE NullInt,
             sex                |-> IF patient.sex = NONE \/ patient.sex = ""
                                    THEN NONE
                                    ELSE IF upper_startswith(patient.sex, "M", "m")
                                    THEN "MALE"
                                    ELSE IF upper_startswith(patient.sex, "F", "f")
                                    THEN "FEMALE"
                                    ELSE "UNKNOWN",
             discharge_status   |-> IF claim.patient_status = ""
                                    THEN "HOME_SELFCARE_ROUTINE"
                                    ELSE ToString(int10(claim.patient_status)),
             admit_dx        |-> IF claim.admit_dx # NONE
                                 THEN mapped_dx_or_self(StripDots(claim.admit_dx),
                                                        mappings)
                                 ELSE NONE,
             principal_dx    |-> mapped_dx_or_self(StripDots(claim.principal_dx),
                                                   mappings),
             secondary_dxs   |-> [i \in DOMAIN claim.secondary_dxs |->
                                     mapped_dx_or_self(
                                         StripDots(claim.secondary_dxs[i]),
                                         mappings)],
             procedure_codes |-> [i \in DOMAIN claim.inpatient_pxs |->
                                     mapped_op_or_self(
                                         StripDots(claim.inpatient_pxs[i]),
                                         mappings)]]]

\* DrgClient.create_drg_options: the runtime options a grouper component is
\* constructed with
create_drg_options(poa_exempt) ==
    [compute_affect_drg        |-> "COMPUTE",
     marking_logic_tie_breaker |-> "CLINICAL_SIGNIFICANCE",
     poa_reporting_exempt      |-> IF poa_exempt THEN "EXEMPT" ELSE "NON_EXEMPT"]

\* an empty dict
EmptyDict == [k \in {} |-> NoneObj]

\* the try block of load_drg_groupers, lines 156-167, for curr_version on
\* the dict drg_versions; outcome tells what the grouper classes of the
\* version do: "loaded", "ClassNotFound" (jpype.JClass raises, the dict is
\* left as it is), "exempt" (the constructor of the first component raises,
\* the dict has got the empty entry of the version), "non_exempt" (the
\* constructor of the second component raises, the entry holds the first
\* component alone). A component is written as the options it runs with.
load_drg_grouper(drg_versions, curr_version, outcome) ==
    IF outcome = "ClassNotFound" THEN [raised |-> TRUE, drg_versions |-> drg_versions]
    ELSE IF outcome = "exempt"
    THEN [raised       |-> TRUE,
          drg_versions |-> SetItem(drg_versions, curr_version, EmptyDict)]
    ELSE IF outcome = "non_exempt"
    THEN [raised       |-> TRUE,
          drg_versions |-> SetItem(drg_versions, curr_version,
                                   SetItem(EmptyDict, "exempt",
                                           create_drg_options(TRUE)))]
    ELSE [raised       |-> FALSE,
          drg_versions |-> SetItem(drg_versions, curr_version,
                                   SetItem(SetItem(EmptyDict, "exempt",
                                                   create_drg_options(TRUE)),
                                           "non_exempt",
                                           create_drg_options(FALSE)))]

\* the dict load_drg_groupers leaves after the versions of walk have been
\* attempted in order, classes[v] being the outcome of version v
RECURSIVE loaded_groupers(_, _)
loaded_groupers(walk, classes) ==
    IF walk = <<>> THEN EmptyDict
    ELSE LET n == Len(walk)
         IN  load_drg_grouper(loaded_groupers(SubSeq(walk, 1, n - 1), classes),
                              walk[n], classes[walk[n]]).drg_versions

\* DrgClient.process, lines 557-562: the mappings handed to create_drg_input
\* (NoneObj when no conversion is requested or no converter is given), or
\* the exception of generate_claim_mappings; icd_converter tells whether
\* the caller gives a converter
process_mappings(table, claim, drg_version, icd_converter) ==
    IF /\ claim.icd_convert # NoneObj
       /\ icd_converter
       /\ claim.icd_convert.option # "NONE"
    THEN generate_claim_mappings(table, claim, drg_version)
    ELSE {NoneObj}

\* DrgClient.process, lines 536-555, on a client whose grouper versions are
\* the dict drg_versions: the version is the one the caller gives or the
\* version of claim.thru_date, it has to be loaded, the component of
\* poa_exempt is taken from its entry, the claim has to have a thru_date
\* and a principal diagnosis. [raised, drg_version, component]: raised is
\* NONE or the exception, component the key of the component selected.
process_select(drg_versions, claim, drg_version_arg, poa_exempt) ==
    LET drg_version == IF drg_version_arg # NONE THEN drg_version_arg
                       ELSE IF claim.thru_date = NoneObj THEN NONE
                       ELSE Drg_determine_drg_version(claim.thru_date)
        component   == IF poa_exempt THEN "exempt" ELSE "non_exempt"
        raised      ==
            IF drg_version = NONE THEN "ValueError"
            ELSE IF drg_version \notin DOMAIN drg_versions THEN "ValueError"
            ELSE IF component \notin DOMAIN drg_versions[drg_version]
            THEN "KeyError"
            ELSE IF claim.thru_date = NoneObj THEN "ValueError"
            ELSE IF claim.principal_dx = NONE THEN "ValueError"
            ELSE NONE
    IN  [raised |-> raised, drg_version |-> drg_version, component |-> component]

\* DrgClient.process, lines 557-564: the mappings are generated and handed
\* to create_drg_input; an exception of generate_claim_mappings ends the
\* call. The set of [mappings, result].
process_input(table, claim, drg_version, icd_converter) ==
    {[mappings |-> m,
      result   |-> IF m # NoneObj /\ m.status # "ok"
                   THEN [status |-> m.status]
                   ELSE create_drg_input(claim, m)] :
        m \in process_mappings(table, claim, drg_version, icd_converter)}

\* DrgClient.process, lines 536-564: the component is selected, then the
\* mappings are generated and the grouper input is built. The set of
\* [drg_version, mappings, result] the call can come to.
process_drg_input(drg_versions, table, claim, drg_version_arg, icd_converter, poa_exempt) ==
    LET sel == process_select(drg_versions, claim, drg_version_arg, poa_exempt)
    IN  IF sel.raised # NONE
        THEN {[drg_version |-> sel.drg_version, mappings |-> NoneObj,
               result |-> [status |-> sel.raised]]}
        ELSE {[drg_version |-> sel.drg_version,
               mappings    |-> i.mappings,
               result      |-> i.result] :
                  i \in process_input(table, claim, sel.drg_version,
                                      icd_converter)}

DrgConvertOptions ==
    {[option |-> "MANUAL", target_version |-> "420", billed_version |-> "410"],
     [option |-> "MANUAL", target_version |-> "410", billed_version |-> "420"],
     [option |-> "AUTO", target_version |-> NONE, billed_version |-> NONE],
     [option |-> "NONE", target_version |-> NONE, billed_version |-> NONE],
     NoneObj}

\* the drg_version process() is called with: a version for an AUTO
\* conversion, else None
DrgVersionArgs(claim) ==
    IF claim.icd_convert # NoneObj /\ claim.icd_convert.option = "AUTO"
    THEN {"410", "420"}
    ELSE {NONE}

\* the grouper versions of the client: "410" and "420" are loaded, the
\* second component of "411" raised in its constructor, "400" and "401" did
\* not load
LoadedDrgVersions ==
    loaded_groupers(<<"400", "401", "410", "411", "420">>,
                    [v \in {"400", "401", "410", "411", "420"} |->
                        IF v \in {"410", "420"} THEN "loaded"
                        ELSE IF v = "411" THEN "non_exempt"
                        ELSE "ClassNotFound"])

\* the patient data of the claims: the default Patient() of a claim, an
\* adult, a newborn with a date of birth, the newborn on a claim without
\* from_date, an adult of a patient_status that is no number
DrgPatients ==
    {[from_date |-> NoneObj, los |-> 0, patient_status |-> "",
      patient |-> [age |-> 0, date_of_birth |-> NoneObj, sex |-> NONE]],
     [from_date |-> MkDate(2024, 11, 10), los |-> 5, patient_status |-> "01",
      patient |-> [age |-> 65, date_of_birth |-> NoneObj, sex |-> "male"]],
     [from_date |-> MkDate(2024, 11, 10), los |-> 5, patient_status |-> "",
      patient |-> [age |-> 0, date_of_birth |-> MkDate(2024, 10, 31),
                   sex |-> "F"]],
     [from_date |-> NoneObj, los |-> 5, patient_status |-> "",
      patient |-> [age |-> 0, date_of_birth |-> MkDate(2024, 10, 31),
                   sex |-> "F"]],
     [from_date |-> MkDate(2024, 11, 10), los |-> 5, patient_status |-> "home",
      patient |-> [age |-> 65, date_of_birth |-> NoneObj, sex |-> "x"]]}

\* the claim with the patient data p
WithPatient(claim, p) ==
    [from_date      |-> p.from_date,
     thru_date      |-> claim.thru_date,
     los            |-> p.los,
     patient_status |-> p.patient_status,
     patient        |-> p.patient,
     principal_dx   |-> claim.principal_dx,
     admit_dx       |-> claim.admit_dx,
     secondary_dxs  |-> claim.secondary_dxs,
     inpatient_pxs  |-> claim.inpatient_pxs,
     icd_convert    |-> claim.icd_convert]

\* the claims of a principal diagnosis alone
DrgShortClaims ==
    {c \in Claims : /\ c.icd_convert \in DrgConvertOptions
                    /\ c.thru_date \in ThruDates(c.icd_convert)
                    /\ c.admit_dx = NONE
                    /\ c.secondary_dxs = <<>>
                    /\ c.inpatient_pxs = <<>>}

\* the claims handed to process(): every claim of the conversion options
\* for the adult with a numeric patient_status, the claims of a principal
\* diagnosis alone for each of the other patients, and these claims without
\* principal diagnosis or without thru_date for the adult
DrgClaims ==
    {WithPatient(c, p) : c \in {c \in Claims :
                                   /\ c.icd_convert \in DrgConvertOptions
                                   /\ c.thru_date \in ThruDates(c.icd_convert)},
                         p \in {p \in DrgPatients :
                                   p.patient.age > 0 /\ p.patient_status = "01"}}
    \cup
    {WithPatient(c, p) : c \in DrgShortClaims, p \in DrgPatients}
    \cup
    {WithPatient([c EXCEPT !.principal_dx = NONE], p) :
        c \in {c \in DrgShortClaims : c.principal_dx = "A01"},
        p \in {p \in DrgPatients :
                  p.patient.age > 0 /\ p.patient_status = "01"}}
    \cup
    {WithPatient([c EXCEPT !.thru_date = NoneObj], p) :
        c \in {c \in DrgShortClaims : c.principal_dx = "A01"},
        p \in {p \in DrgPatients :
                  p.patient.age > 0 /\ p.patient_status = "01"}}

\* the icd_converter and poa_exempt process() is called with: a converter
\* and poa_exempt=False for every claim, each of the four cases for the
\* claims of a principal diagnosis alone
DrgCallOptions(claim) ==
    IF claim.admit_dx = NONE /\ claim.secondary_dxs = <<>>
       /\ claim.inpatient_pxs = <<>>
    THEN [icd_converter : BOOLEAN, poa_exempt : BOOLEAN]
    ELSE {[icd_converter |-> TRUE, poa_exempt |-> FALSE]}

InitDrg ==
    /\ icd_table \in IcdTables
    /\ icall = NoCall
    /\ vcall = NoCall
    /\ PsfIdle

\* create_drg_input(claim, mappings) as process() calls it
CreateDrgInput ==
    /\ icall = NoCall
    /\ \E claim \in DrgClaims :
       \E drg_version_arg \in DrgVersionArgs(claim) :
       \E opt \in DrgCallOptions(claim) :
       \E o \in process_drg_input(LoadedDrgVersions, icd_table, claim,
                                  drg_version_arg, opt.icd_converter,
                                  opt.poa_exempt) :
          icall' = [op          |-> "create_drg_input",
                    claim       |-> claim,
                    icd_converter |-> opt.icd_converter,
                    poa_exempt  |-> opt.poa_exempt,
                    drg_version |-> o.drg_version,
                    mappings    |-> o.mappings,
                    result      |-> o.result]
    /\ UNCHANGED <<vcall, icd_table, psf_vars>>

NextDrg == CreateDrgInput

SpecDrg == InitDrg /\ [][NextDrg]_vars

\* code k of the claim has an entry with a non-empty candidate list in the
\* mappings handed to create_drg_input
DrgHasCandidates(k) ==
    /\ icall.mappings # NoneObj
    /\ k \in DOMAIN icall.mappings.mappings
    /\ icall.mappings.mappings[k] # NoneObj
    /\ Len(icall.mappings.mappings[k].conversion_choices) > 0

\* the code the claim requires to be submitted for code k: the first
\* candidate of its entry, else the code itself (written without periods,
\* as the grouper takes it)
DrgExpected(k) ==
    IF DrgHasCandidates(k) THEN icall.mappings.mappings[k].conversion_choices[1]
    ELSE StripDots(k)

\* C20: every diagnosis and procedure code of the claim whose entry in the
\* generated mappings has a non-empty candidate list is submitted to the
\* grouper as the first candidate of that list; a code with no entry or an
\* empty list is submitted as it is.
C20_FirstCandidate ==
    (icall.op = "create_drg_input" /\ icall.result.status = "ok") =>
        LET claim == icall.claim
            input == icall.result.drg_input
        IN  /\ input.principal_dx = DrgExpected(claim.principal_dx)
            /\ claim.admit_dx # NONE => input.admit_dx = DrgExpected(claim.admit_dx)
            /\ \A i \in DOMAIN claim.secondary_dxs :
                  input.secondary_dxs[i] = DrgExpected(claim.secondary_dxs[i])
            /\ \A i \in DOMAIN claim.inpatient_pxs :
                  input.procedure_codes[i] = DrgExpected(claim.inpatient_pxs[i])

-----------------------------------------------------------------------------
(* Code-system isolation of the lookups                                    *)

\* the rows of the other code system that match the recorded lookup in
\* code and date
OtherSystemRows ==
    {i \in DOMAIN icd_table :
        /\ icd_table[i].code_type # icall.code_type
        /\ IF icall.op = "convert_backward"
           THEN /\ icd_table[i].current_code = StripDots(icall.code)
                /\ DateKey(icd_table[i].effective_date)
                      > DateKey(query_date(icall.as_of_date))
           ELSE /\ icd_table[i].previous_code = StripDots(icall.code)
                /\ DateKey(icd_table[i].effective_date)
                      <= DateKey(query_date(icall.as_of_date))}

\* C21: a lookup made for one code system returns candidates of entries of
\* that code system only: every candidate of convert_forward is the current
\* code of its own qualifying entry of that system, the candidate of
\* convert_backward is the previous code of one, and when only entries of
\* the other system match the code the lookup returns nothing.
C21_CodeSystemIsolation ==
    /\ IsConvertCall("convert_forward") =>
          IF icall.result = NoneObj THEN QualifyingForward = {}
          ELSE LET choices == icall.result.conversion_choices
               IN  /\ Len(choices) = Cardinality(QualifyingForward)
                   /\ \E f \in [DOMAIN choices -> QualifyingForward] :
                         /\ \A i, j \in DOMAIN choices : i # j => f[i] # f[j]
                         /\ \A i \in DOMAIN choices :
                               choices[i] = icd_table[f[i]].current_code
    /\ IsConvertCall("convert_backward") =>
          IF icall.result = NoneObj THEN QualifyingBackward = {}
          ELSE \E r \in QualifyingBackward :
                  icall.result.conversion_choices = <<icd_table[r].previous_code>>

\* a diagnosis entry and a procedure entry share the previous code "A01";
\* the procedure lookup returns the procedure entry's current code only
C21_Witness ==
    /\ IsConvertCall("convert_forward")
    /\ icall.code = "A01"
    /\ icall.code_type = 1
    /\ OtherSystemRows # {}
    /\ \A r \in OtherSystemRows : icd_table[r].current_code = "A01"
    /\ icall.result # NoneObj
    /\ icall.result.conversion_choices = <<"B02">>

-----------------------------------------------------------------------------
(* Specification SpecParse: the parsers and loaders of the reference files *)
(* on drawn inputs                                                         *)

\* str.isdigit() on the ASCII strings of the model
isdigit(s) == Len(s) > 0 /\ AllDigits(s)

\* str.zfill(width) of a string of digits
RECURSIVE zfill(_, _)
zfill(s, width) == IF Len(s) >= width THEN s ELSE zfill("0" \o s, width)

\* the loop of lines 13-19: the characters the two codes share from the left
RECURSIVE CommonPrefix(_, _)
CommonPrefix(a, b) ==
    IF Len(a) = 0 \/ Len(b) = 0 THEN ""
    ELSE IF Head(a) = Head(b) THEN Head(a) \o CommonPrefix(Tail(a), Tail(b))
    ELSE ""

\* mutant: the end suffix is left out of the range
expand_code_range_exclusive(start_code, end_code) ==
    LET common_prefix    == CommonPrefix(start_code, end_code)
        start_suffix_str == SubSeq(start_code, Len(common_prefix) + 1, Len(start_code))
        end_suffix_str   == SubSeq(end_code, Len(common_prefix) + 1, Len(end_code))
        start_suffix     == IntOfDigits(start_suffix_str, 0)
        end_suffix       == IntOfDigits(end_suffix_str, 0)
        num_digits       == Len(start_suffix_str)
    IN  IF isdigit(start_suffix_str) /\ isdigit(end_suffix_str)
        THEN [k \in 1..(end_suffix - start_suffix) |->
                 common_prefix \o zfill(ToString(start_suffix + k - 1), num_digits)]
        ELSE <<start_code, end_code>>

\* parse_icd_table.expand_code_range
expand_code_range(start_code, end_code) ==
    LET common_prefix    == CommonPrefix(start_code, end_code)
        start_suffix_str == SubSeq(start_code, Len(common_prefix) + 1, Len(start_code))
        end_suffix_str   == SubSeq(end_code, Len(common_prefix) + 1, Len(end_code))
        start_suffix     == IntOfDigits(start_suffix_str, 0)
        end_suffix       == IntOfDigits(end_suffix_str, 0)
        num_digits       == Len(start_suffix_str)
    IN  IF isdigit(start_suffix_str) /\ isdigit(end_suffix_str)
        THEN [k \in 1..(end_suffix - start_suffix + 1) |->
                 common_prefix \o zfill(ToString(start_suffix + k - 1), num_digits)]
        ELSE <<start_code, end_code>>

RangeCodes ==
    {"H02.101", "H02.106", "H02.112", "A00", "B11", "A9", "A10", "A1x", "T07",
     "T07.9"}

ParseIdle ==
    /\ IcdIdle
    /\ vcall = NoCall
    /\ psf_kind = "ipsf"
    /\ psf_table = <<>>
    /\ PopulateIdle
    /\ pcall = NoCall
    /\ zip_table = <<>>
    /\ bcall = NoCall
    /\ drg = DrgIdle

parse_frame == <<vcall, icd_vars, psf_kind, psf_table, pop_vars, pcall,
                 zip_table, bcall, drg>>

RangeInputs ==
    {[op |-> "range", start_code |-> a, end_code |-> b] :
        a \in RangeCodes, b \in RangeCodes}

\* expand_code_range(start_code, end_code)
ExpandCodeRange ==
    /\ fcall.op = "range"
    /\ fcall' = [op         |-> "expand_code_range",
                 start_code |-> fcall.start_code,
                 end_code   |-> fcall.end_code,
                 result     |-> expand_code_range(fcall.start_code, fcall.end_code)]
    /\ UNCHANGED parse_frame

\* the length of the longest common prefix of a and b
PrefixLen(a, b) ==
    CHOOSE n \in 0..Len(a) :
        /\ n <= Len(b)
        /\ SubSeq(a, 1, n) = SubSeq(b, 1, n)
        /\ \A m \in (n + 1)..Len(a) :
              m <= Len(b) => SubSeq(a, 1, m) # SubSeq(b, 1, m)

\* C22: with the longest common prefix removed, two suffixes of digits give
\* prefix + zero-padded(i) for every i from the start suffix to the end
\* suffix inclusive, ascending, padded to the width of the start suffix;
\* anything else gives [start, end]. ("H02.101", "H02.106") gives the six
\* codes H02.101 .. H02.106 and ("A00", "B11") gives ["A00", "B11"].
C22_ExpandCodeRange ==
    fcall.op = "expand_code_range" =>
        LET a      == fcall.start_code
            b      == fcall.end_code
            n      == PrefixLen(a, b)
            prefix == SubSeq(a, 1, n)
            sfx    == SubSeq(a, n + 1, Len(a))
            efx    == SubSeq(b, n + 1, Len(b))
            lo     == IntOfDigits(sfx, 0)
            hi     == IntOfDigits(efx, 0)
            res    == fcall.result
        IN  /\ IF Len(sfx) > 0 /\ AllDigits(sfx) /\ Len(efx) > 0 /\ AllDigits(efx)
               THEN /\ Len(res) = (IF hi >= lo THEN hi - lo + 1 ELSE 0)
                    /\ \A k \in DOMAIN res :
                          LET tail == SubSeq(res[k], n + 1, Len(res[k]))
                          IN  /\ SubSeq(res[k], 1, n) = prefix
                              /\ AllDigits(tail)
                              /\ IntOfDigits(tail, 0) = lo + k - 1
                              /\ Len(tail) =
                                    (IF Len(ToString(lo + k - 1)) > Len(sfx)
                                     THEN Len(ToString(lo + k - 1)) ELSE Len(sfx))
               ELSE res = <<a, b>>
            /\ (a = "H02.101" /\ b = "H02.106") =>
                  res = <<"H02.101", "H02.102", "H02.103", "H02.104", "H02.105",
                          "H02.106">>
            /\ (a = "A00" /\ b = "B11") => res = <<"A00", "B11">>

C22_Witness ==
    /\ fcall.op = "expand_code_range"
    /\ fcall.start_code = "H02.106"
    /\ fcall.end_code = "H02.112"
    /\ fcall.result = <<"H02.106", "H02.107", "H02.108", "H02.109", "H02.110",
                        "H02.111", "H02.112">>

\* float(s) accepts digits with at most one point and an optional sign
\* (exponents, "inf", "nan", blanks and underscores, which it also accepts,
\* do not occur in the model)
RECURSIVE CountPoints(_)
CountPoints(s) == IF Len(s) = 0 THEN 0
                  ELSE (IF Head(s) = "." THEN 1 ELSE 0) + CountPoints(Tail(s))

RECURSIVE AfterPoint(_)
AfterPoint(s) == IF Len(s) = 0 THEN ""
                 ELSE IF Head(s) = "." THEN Tail(s) ELSE AfterPoint(Tail(s))

float_parses(s) ==
    LET body == IF Len(s) >= 1 /\ Head(s) \in {"-", "+"} THEN Tail(s) ELSE s
    IN  /\ CountPoints(body) <= 1
        /\ isnumeric(StripDots(body))

\* a float as num * 10^exp10 with the trailing zeros of the fraction removed
RECURSIVE NormFloat(_, _)
NormFloat(num, exp10) ==
    IF exp10 < 0 /\ num % 10 = 0 THEN NormFloat(num \div 10, exp10 + 1)
    ELSE [num |-> num, exp10 |-> exp10]

float10(s) ==
    LET neg  == Len(s) >= 1 /\ Head(s) = "-"
        body == IF Len(s) >= 1 /\ Head(s) \in {"-", "+"} THEN Tail(s) ELSE s
        mag  == IntOfDigits(StripDots(body), 0)
    IN  NormFloat(IF neg THEN 0 - mag ELSE mag, 0 - Len(AfterPoint(body)))

\* DATATYPES reduced to the three columns both provider files keep, one of
\* each type, at consecutive positions
DATATYPES ==
    <<[name |-> "provider_ccn", type |-> "TEXT"],
      [name |-> "effective_date", type |-> "INT"],
      [name |-> "cost_of_living_adjustment", type |-> "REAL"]>>

\* the body of the loop over DATATYPES: one cell of a row to its stored value
CellValue(type, row, pos) ==
    LET val == IF pos <= Len(row) THEN row[pos] ELSE NONE
    IN  IF type = "INT"
        THEN IF val = "" \/ val = NONE THEN NullInt
             ELSE IF int_parses(val) THEN int10(val) ELSE NullInt
        ELSE IF type = "REAL"
        THEN IF val = "" \/ val = NONE THEN NoneObj
             ELSE IF float_parses(val) THEN float10(val) ELSE NoneObj
        ELSE IF val = "" THEN NONE ELSE val

RowRecord(row) ==
    [provider_ccn              |-> CellValue(DATATYPES[1].type, row, 1),
     effective_date            |-> CellValue(DATATYPES[2].type, row, 2),
     cost_of_living_adjustment |-> CellValue(DATATYPES[3].type, row, 3)]

\* the rows of the file after the header
RECURSIVE DataRecords(_)
DataRecords(rows) ==
    IF rows = <<>> THEN <<>>
    ELSE IF Len(Head(rows)) < Len(DATATYPES) THEN DataRecords(Tail(rows))
    ELSE <<RowRecord(Head(rows))>> \o DataRecords(Tail(rows))

\* mutant: a short row ends the iteration
row_iter_break(csv) ==
    IF csv = <<>> THEN <<>>
    ELSE LET rows  == Tail(csv)
             short == {k \in DOMAIN rows : Len(rows[k]) < Len(DATATYPES)}
             stop  == IF short = {} THEN Len(rows) + 1
                      ELSE CHOOSE k \in short : \A j \in short : k <= j
         IN  DataRecords(SubSeq(rows, 1, stop - 1))

\* IPSFDatabase._row_iter / OPSFDatabase._row_iter: the records yielded for
\* the rows csv.reader gives, the first of which is the header
row_iter(csv) == IF csv = <<>> THEN <<>> ELSE DataRecords(Tail(csv))

MaxCsvLines == 2

CsvHeader == <<"provider_ccn", "effective_date", "cost_of_living_adjustment">>

FullLines ==
    {<<a, b, c>> : a \in {"", "010001"},
                   b \in {"", "20230101", "1.5"},
                   c \in {"", "15", "1.50", "x"}}

CsvLines ==
    FullLines \cup {l \o <<"Y">> : l \in {f \in FullLines : f[1] # ""}}
              \cup {<<>>, <<"010001">>, <<"010001", "20230101">>}

CsvTexts ==
    {<<>>} \cup {<<CsvHeader>> \o rows : rows \in SeqsUpTo(CsvLines, MaxCsvLines)}

RowIterInputs ==
    {[op |-> "csv", kind |-> k, csv |-> c] :
        k \in {"ipsf", "opsf"}, c \in CsvTexts}

\* list(db._row_iter(csv_path))
RowIter ==
    /\ fcall.op = "csv"
    /\ fcall' = [op     |-> "_row_iter",
                 kind   |-> fcall.kind,
                 csv    |-> fcall.csv,
                 result |-> row_iter(fcall.csv)]
    /\ UNCHANGED parse_frame

\* C23: every row with at least the expected number of columns yields exactly
\* one record, in file order, in which an empty cell is null, an integer or
\* real cell that does not parse is null and every other cell has its parsed
\* value; a shorter row yields nothing and the rows after it are still read.
C23_RowIter ==
    fcall.op = "_row_iter" =>
        LET rows == IF fcall.csv = <<>> THEN <<>> ELSE Tail(fcall.csv)
            wide == SelectSeq(rows, LAMBDA r : Len(r) >= 3)
            res  == fcall.result
        IN  /\ Len(res) = Len(wide)
            /\ \A k \in DOMAIN wide :
                  LET r == wide[k]
                  IN  /\ res[k].provider_ccn = (IF r[1] = "" THEN NONE ELSE r[1])
                      /\ res[k].effective_date =
                            (IF r[2] = "20230101" THEN 20230101 ELSE NullInt)
                      /\ res[k].cost_of_living_adjustment =
                            (IF r[3] = "15" THEN [num |-> 15, exp10 |-> 0]
                             ELSE IF r[3] = "1.50" THEN [num |-> 15, exp10 |-> -1]
                             ELSE NoneObj)

C23_Witness ==
    /\ fcall.op = "_row_iter"
    /\ fcall.csv = <<CsvHeader, <<"010001", "20230101">>,
                     <<"010001", "1.5", "1.50">>>>
    /\ fcall.result = <<[provider_ccn |-> "010001", effective_date |-> NullInt,
                         cost_of_living_adjustment |-> [num |-> 15, exp10 |-> -1]]>>

-----------------------------------------------------------------------------
(* The diagnosis table file: parse_icd_conversion_table, then               *)
(* populate_database                                                        *)

\* datetime.strptime(s, "%m/%d/%y") succeeds: %m and %d as above, %y two
\* digits, a day of the calendar
strptime_mdy_parses(s) ==
    LET p == SplitAny(s, {"/"})
    IN  /\ Len(p) = 3
        /\ strptime_m(p[1])
        /\ strptime_d(p[2])
        /\ isnumeric(p[3]) /\ Len(p[3]) = 2
        /\ LET yy == IntOfDigits(p[3], 0)
               y  == IF yy <= 68 THEN 2000 + yy ELSE 1900 + yy
           IN  strptime_int(p[2]) <= DaysInMonth(y, strptime_int(p[1]))

\* datetime.strptime(s, "%m/%d/%y").strftime("%Y-%m-%d")
strptime_mdy(s) ==
    LET p  == SplitAny(s, {"/"})
        yy == IntOfDigits(p[3], 0)
        y  == IF yy <= 68 THEN 2000 + yy ELSE 1900 + yy
    IN  zfill(ToString(y), 4) \o "-" \o zfill(ToString(strptime_int(p[1])), 2)
        \o "-" \o zfill(ToString(strptime_int(p[2])), 2)

\* lines 76-86: the effective date column to the text stored in the entry
parse_effective_date(effective_date_str) ==
    IF int_parses(effective_date_str)
    THEN ToString(int10(effective_date_str)) \o "-10-01"
    ELSE IF strptime_mdy_parses(effective_date_str)
    THEN strptime_mdy(effective_date_str)
    ELSE effective_date_str

\* lines 97-106: one piece of the previous codes column
final_code(code) ==
    IF Contains(code, "-")
    THEN LET range_parts == SplitAny(code, {"-"})
         IN  IF Len(range_parts) = 2
             THEN LET start_code == strip(range_parts[1])
                      end_part   == strip(range_parts[2])
                      end_code   ==
                          IF Len(end_part) < Len(start_code)
                          THEN (IF Len(end_part) = 0 THEN ""
                                ELSE SubSeq(start_code, 1,
                                            Len(start_code) - Len(end_part)))
                               \o end_part
                          ELSE end_part
                  IN  expand_code_range(start_code, end_code)
             ELSE <<code>>
    ELSE <<code>>

RECURSIVE final_codes(_)
final_codes(raw_codes) ==
    IF raw_codes = <<>> THEN <<>>
    ELSE LET code == strip(Head(raw_codes))
         IN  (IF code = "" THEN <<>> ELSE final_code(code))
             \o final_codes(Tail(raw_codes))

\* lines 56-115 for one line, given as the parts of
\* re.split(r"\s{2,}|\t", line, maxsplit=2): the entries it appends
parse_line(parts) ==
    IF Len(parts) < 3 THEN <<>>
    ELSE LET current_code       == strip(parts[1])
             effective_date_str == strip(parts[2])
             prev_codes_str     == strip(parts[3])
         IN  IF Contains(lower(prev_codes_str), "none")
                \/ Contains(lower(prev_codes_str), "categories")
             THEN <<>>
             ELSE <<[current_code   |-> current_code,
                     effective_date |-> parse_effective_date(effective_date_str),
                     previous_codes |->
                         final_codes(SplitAny(
                             Replace(Replace(prev_codes_str, "\"", ""),
                                     " and ", ", "),
                             {";", ","}))]>>

RECURSIVE parse_lines(_)
parse_lines(lines) ==
    IF lines = <<>> THEN <<>>
    ELSE parse_line(Head(lines)) \o parse_lines(Tail(lines))

\* parse_icd_table.parse_icd_conversion_table: file is [header, lines], header
\* telling whether a header line is found, lines the lines after it
parse_icd_conversion_table(file) ==
    IF ~file.header THEN [raised |-> "ValueError", data |-> <<>>]
    ELSE [raised |-> NONE, data |-> parse_lines(file.lines)]

\* lines 188-195 of download_icd_conversion_file on a table holding the rows
\* of table: the file is parsed and its entries are handed to
\* populate_database
load_conversion_table(table, file) ==
    LET parsed == parse_icd_conversion_table(file)
    IN  IF parsed.raised # NONE
        THEN [raised |-> parsed.raised, parsed |-> <<>>, table |-> table]
        ELSE LET done == populate_database(table, parsed.data)
             IN  [raised |-> done.raised, parsed |-> parsed.data,
                  table |-> done.table]

MaxCmLines == 2

CmDateColumns ==
    {"2024", "01/01/24", "1/ 1/24", "24", "April 2024", "2024-04-01"}

CmPreviousColumns ==
    {"B02", "B02, T07", "None", "H02.101-H02.103", "\"A9\" and B02", "T07.1-3;"}

CmLines ==
    {<<"A0.1", d, p>> : d \in CmDateColumns, p \in CmPreviousColumns}
        \cup {<<"A0.1">>}

CmFiles ==
    [header : BOOLEAN, lines : SeqsUpTo(CmLines, MaxCmLines)]

CmInputs == {[op |-> "cm_file", file |-> f] : f \in CmFiles}

\* parse_icd_conversion_table(path), then populate_database(engine, json)
LoadConversionTable ==
    /\ fcall.op = "cm_file"
    /\ fcall' = [op     |-> "load_conversion_table",
                 file   |-> fcall.file,
                 result |-> load_conversion_table(<<>>, fcall.file)]
    /\ UNCHANGED parse_frame

\* the effective date column is a 4-digit year or an MM/DD/YY date
CmUsualDate(s) ==
    \/ Len(s) = 4 /\ AllDigits(s)
    \/ /\ Len(s) = 8
       /\ SubSeq(s, 3, 3) = "/" /\ SubSeq(s, 6, 6) = "/"
       /\ AllDigits(SubSeq(s, 1, 2)) /\ AllDigits(SubSeq(s, 4, 5))
       /\ AllDigits(SubSeq(s, 7, 8))

\* the lines of a file that carry an entry
CmEntryLines(file) ==
    {k \in DOMAIN file.lines :
        /\ Len(file.lines[k]) = 3
        /\ ~Contains(lower(file.lines[k][3]), "none")}

\* C24: a row whose effective date column is neither a 4-digit year nor an
\* MM/DD/YY date is accepted: parsing and loading continue, the load is not
\* aborted and the entries of the other rows are stored.
C24_OtherDateAccepted ==
    (/\ fcall.op = "load_conversion_table"
     /\ fcall.file.header
     /\ \E k \in CmEntryLines(fcall.file) : ~CmUsualDate(fcall.file.lines[k][2]))
    => /\ fcall.result.raised = NONE
       /\ \A k \in CmEntryLines(fcall.file) :
             CmUsualDate(fcall.file.lines[k][2]) =>
                 \E r \in Range(fcall.result.table) :
                     /\ r.current_code = "A01"
                     /\ r.effective_date =
                           (IF fcall.file.lines[k][2] = "2024"
                            THEN MkDate(2024, 10, 1) ELSE MkDate(2024, 1, 1))

-----------------------------------------------------------------------------
(* The procedure table file: populate_database_pcs                          *)

\* lines 98-127 for one line of the file: [status, rows], status "skip" for a
\* line passed over, "ok" with the rows added to the session, or the error
\* raised
pcs_line(line) ==
    LET parts == SplitAny(strip(line), {"\t"})
    IN  IF Len(parts) < 8 THEN [status |-> "skip", rows |-> <<>>]
        ELSE
        LET current_code        == parts[1]
            effective_year      == parts[3]
            previous_codes      == IF parts[4] # "" THEN SplitAny(parts[4], {","})
                                   ELSE <<>>
            effective_month_day == parts[8]
        IN  IF lower(current_code) = "nopcs" THEN [status |-> "skip", rows |-> <<>>]
            ELSE IF previous_codes = <<>>
            THEN [status |-> "IndexError", rows |-> <<>>]
            ELSE IF lower(previous_codes[1]) = "nopcs"
                    \/ current_code = previous_codes[1]
            THEN [status |-> "skip", rows |-> <<>>]
            ELSE IF ~(isdigit(effective_year) /\ Len(effective_year) = 4)
            THEN [status |-> "ok", rows |-> <<>>]
            ELSE
            LET year   == IntOfDigits(effective_year, 0)
                dotted == effective_month_day # ""
                          /\ Contains(effective_month_day, ".")
                md     == SplitAny(effective_month_day, {"."})
            IN  IF dotted /\ (Len(md) # 2 \/ ~int_parses(strip(md[1]))
                              \/ ~int_parses(strip(md[2])))
                THEN [status |-> "ValueError", rows |-> <<>>]
                ELSE
                LET month == IF dotted THEN int10(strip(md[1])) ELSE 1
                    day   == IF dotted THEN int10(strip(md[2])) ELSE 1
                IN  IF year < 1 \/ month \notin 1..12 \/ day < 1
                       \/ day > DaysInMonth(year, month)
                    THEN [status |-> "ValueError", rows |-> <<>>]
                    ELSE [status |-> "ok",
                          rows |->
                            [k \in DOMAIN previous_codes |->
                                [previous_code  |-> StripDots(previous_codes[k]),
                                 current_code   |-> StripDots(current_code),
                                 effective_date |-> MkDate(year, month, day),
                                 code_type      |-> 1]]]

\* the loop over the lines after the header: [raised, added]
RECURSIVE pcs_lines(_)
pcs_lines(lines) ==
    IF lines = <<>> THEN [raised |-> NONE, added |-> <<>>]
    ELSE LET first == pcs_line(Head(lines))
         IN  IF first.status \notin {"ok", "skip"}
             THEN [raised |-> first.status, added |-> <<>>]
             ELSE LET rest == pcs_lines(Tail(lines))
                  IN  IF rest.raised # NONE THEN rest
                      ELSE [raised |-> NONE,
                            added |-> first.rows \o rest.added]

\* populate_database_pcs: the table after the call on the lines that follow
\* the header; the session is committed after the last line only
populate_database_pcs(table, lines) ==
    LET done == pcs_lines(lines)
    IN  [raised |-> done.raised,
         table  |-> IF done.raised = NONE THEN table \o done.added ELSE table]

MaxPcsLines == 2

PcsColumns ==
    [current  : {"0A1", "NoPCS"},
     year     : {"2024", "24"},
     previous : {"0B2", "0B2,0A1", "0A1", "nopcs", ""},
     mmdd     : {"04.01", "", "0401", "4.31"}]

\* the line of the file for the eight columns
PcsLine(c) ==
    c.current \o "\t" \o "t" \o "\t" \o c.year \o "\t" \o c.previous
    \o "\t" \o "p" \o "\t" \o "R" \o "\t" \o "c" \o "\t" \o c.mmdd \o "\n"

PcsFiles == SeqsUpTo(PcsColumns, MaxPcsLines)

PcsInputs == {[op |-> "pcs_file", columns |-> f] : f \in PcsFiles}

\* populate_database_pcs(engine, path) on an empty table
PopulateDatabasePcs ==
    /\ fcall.op = "pcs_file"
    /\ fcall' = [op      |-> "populate_database_pcs",
                 columns |-> fcall.columns,
                 result  |-> populate_database_pcs(
                                <<>>, [k \in DOMAIN fcall.columns |->
                                        PcsLine(fcall.columns[k])])]
    /\ UNCHANGED parse_frame

\* the first previous code of a row
PcsFirstPrevious(c) ==
    IF c.previous = "" THEN NONE
    ELSE IF c.previous = "0B2,0A1" THEN "0B2" ELSE c.previous

\* a row the rule of the table skips
PcsSkipped(c) ==
    \/ c.current = "NoPCS"
    \/ PcsFirstPrevious(c) = "nopcs"
    \/ PcsFirstPrevious(c) = c.current

\* the previous codes of a row
PcsPrevious(c) ==
    IF c.previous = "" THEN {}
    ELSE IF c.previous = "0B2,0A1" THEN {"0B2", "0A1"} ELSE {c.previous}

\* C25: a row of the procedure table is skipped exactly when its current code
\* or first previous code is "nopcs" in any case or its current code equals
\* its first previous code; every other 8-column row (here with a 4-digit
\* year and, when the MM.DD column is filled in, a day of the calendar) gives
\* one entry per previous code, dated by the MM.DD column when it is present
\* and January 1 of the year when it is not; no row makes the load fail.
C25_PcsLoad ==
    fcall.op = "populate_database_pcs" =>
        /\ fcall.result.raised = NONE
        /\ \A k \in DOMAIN fcall.columns :
              LET c == fcall.columns[k]
              IN  (c.year = "2024" /\ c.mmdd \in {"04.01", ""} /\ ~PcsSkipped(c))
                  => \A prev \in PcsPrevious(c) :
                        [previous_code  |-> prev,
                         current_code   |-> c.current,
                         effective_date |-> IF c.mmdd = "04.01"
                                            THEN MkDate(2024, 4, 1)
                                            ELSE MkDate(2024, 1, 1),
                         code_type      |-> 1] \in Range(fcall.result.table)
        /\ \A r \in Range(fcall.result.table) :
              \E k \in DOMAIN fcall.columns :
                  /\ ~PcsSkipped(fcall.columns[k])
                  /\ r.current_code = fcall.columns[k].current
                  /\ r.previous_code \in PcsPrevious(fcall.columns[k])

InitParse ==
    /\ fcall \in RangeInputs \cup RowIterInputs
    /\ ParseIdle

NextParse == ExpandCodeRange \/ RowIter

SpecParse == InitParse /\ [][NextParse]_vars

-----------------------------------------------------------------------------
(* Specification SpecTables: the two conversion table files are loaded      *)

InitTables ==
    /\ fcall \in CmInputs \cup PcsInputs
    /\ ParseIdle

NextTables == LoadConversionTable \/ PopulateDatabasePcs

SpecTables == InitTables /\ [][NextTables]_vars

-----------------------------------------------------------------------------
(* The database build: to_sqlite, download_icd_conversion_file,            *)
(* load_records                                                            *)

\* lines 188-200 of download_icd_conversion_file, done being what
\* load_conversion_table comes to on the cleared table: the commits so far.
\* After the load the archive, the extracted file and the directory it was
\* extracted to are removed; os.rmdir raises OSError when the file lay in a
\* folder of the archive (in_dir), the folder being left in the directory
download_cm_loaded(done, in_dir) ==
    [raised  |-> IF done.raised # NONE THEN done.raised
                 ELSE IF in_dir THEN "OSError" ELSE NONE,
     commits |-> IF done.raised = NONE THEN <<<<>>, done.table>> ELSE <<<<>>>>]

\* if txt_file: the diagnosis file is parsed and loaded
download_cm_file(zips) ==
    IF zips.cm = NoneObj THEN [raised |-> NONE, commits |-> <<<<>>>>]
    ELSE download_cm_loaded(load_conversion_table(<<>>, zips.cm), zips.cm_dir)

\* lines 201-208, done being what populate_database_pcs comes to on the
\* table the diagnosis file left; os.rmdir as above
download_pcs_loaded(cm, done, in_dir) ==
    [raised  |-> IF done.raised # NONE THEN done.raised
                 ELSE IF in_dir THEN "OSError" ELSE NONE,
     commits |-> IF done.raised = NONE THEN Append(cm.commits, done.table)
                 ELSE cm.commits]

\* if pcs_txt_file: the procedure file is loaded, unless the diagnosis file
\* has raised
download_pcs_file(cm, zips) ==
    IF cm.raised # NONE \/ zips.pcs = NoneObj THEN cm
    ELSE download_pcs_loaded(
             cm, populate_database_pcs(cm.commits[Len(cm.commits)],
                                       zips.pcs.lines), zips.pcs_dir)

\* ICDConverter.download_icd_conversion_file. http is [next, cur], each
\* [cm, pcs] telling whether the HEAD request answers 200; zips is
\* [cm, pcs, cm_dir, pcs_dir], the .txt file of each downloaded archive: cm a
\* file [header, lines], pcs [lines] with the lines after its header line,
\* either of them NoneObj when the archive holds no .txt file, cm_dir and
\* pcs_dir telling whether the .txt file lies in a folder of its archive.
\* The table is cleared and committed; the
\* files of next year, or of this year when neither file of next year
\* answers 200, are loaded if both answer 200, the diagnosis file committed
\* before the procedure file is read. The result is [raised, commits]:
\* commits are the rows of the table as each commit leaves them.
download_icd_conversion_file(http, zips) ==
    LET fallback == ~http.next.cm /\ ~http.next.pcs
        response == IF fallback THEN http.cur ELSE http.next
    IN  IF fallback /\ ~http.cur.cm /\ ~http.cur.pcs
        THEN [raised |-> "Exception", commits |-> <<<<>>>>]
        ELSE IF ~(response.cm /\ response.pcs)
        THEN [raised |-> NONE, commits |-> <<<<>>>>]
        ELSE download_pcs_file(download_cm_file(zips), zips)

\* batch_size: int = 4000 of IPSFDatabase.populate, 5000 of
\* OPSFDatabase.populate and of load_records
IPSF_BATCH_SIZE == 4000
OPSF_BATCH_SIZE == 5000
ZIP_BATCH_SIZE == 5000

\* carriers[int(carrier_id)]: a list is indexed from 0, and from its end by a
\* negative number
PyIndexable(list, i) == i >= 0 - Len(list) /\ i < Len(list)

PyItem(list, i) == IF i >= 0 THEN list[i + 1] ELSE list[Len(list) + i + 1]

\* _iter_rows: the rows of the record lines (each without its line end); an
\* empty line, a line that is not six tab-separated fields and a line whose
\* carrier or locality number is no number or no index of the dictionaries
\* are passed over
RECURSIVE iter_rows(_, _, _)
iter_rows(lines, carriers, localities) ==
    IF lines = <<>> THEN <<>>
    ELSE LET line  == Head(lines)
             parts == SplitAny(line, {"\t"})
             rest  == iter_rows(Tail(lines), carriers, localities)
         IN  IF line = "" \/ Len(parts) # 6 THEN rest
             ELSE IF ~int_parses(parts[5]) \/ ~int_parses(parts[6]) THEN rest
             ELSE IF ~PyIndexable(carriers, int10(parts[5]))
                     \/ ~PyIndexable(localities, int10(parts[6]))
             THEN rest
             ELSE <<[state |-> "",
                     zip_code |-> parts[1],
                     carrier |-> PyItem(carriers, int10(parts[5])),
                     pricing_locality |-> PyItem(localities, int10(parts[6])),
                     rural_indicator |-> "",
                     plus_four_flag |-> IF parts[2] = "" THEN "0" ELSE "1",
                     plus_four |-> parts[2],
                     part_b_payment_indicator |-> "",
                     effective_date |-> parts[3] \o "-01-01",
                     end_date |-> IF parts[4] = "9999" THEN "9999-12-31"
                                  ELSE parts[4] \o "-12-31"]>> \o rest

\* zipCL_loader.load_records(root, engine, batch_size, truncate) on a table
\* holding the rows of table; root is [carriers, localities, records]. The
\* result is [total, commits]: commits are the rows of the table as each
\* commit leaves them, the delete first when truncate is set, then one
\* commit for every batch_size rows and one for the rows left over.
load_records(table, root, batch_size, truncate) ==
    IF root.carriers = <<>> \/ root.localities = <<>>
    THEN [total |-> 0, commits |-> <<>>]
    ELSE LET start   == IF truncate THEN <<>> ELSE table
             rows    == iter_rows(root.records, root.carriers, root.localities)
             batches == (Len(rows) + batch_size - 1) \div batch_size
             upto(k) == IF k * batch_size < Len(rows) THEN k * batch_size
                        ELSE Len(rows)
         IN  [total   |-> Len(rows),
              commits |-> (IF truncate THEN <<start>> ELSE <<>>)
                          \o [k \in 1..batches |->
                                 start \o SubSeq(rows, 1, upto(k))]]

MaxZipLines == 2
MaxBuilds == 2

\* record lines: a carrier number that is an index, one that counts from the
\* end, one out of range, a line of two fields
ZipLines ==
    {"35004\t\t2020\t9999\t" \o c \o "\t0" : c \in {"0", "-1", "2"}}
        \cup {"35004\t1234"}

\* the data directories: one without carriers.txt, the others with two
\* carriers and one locality
ZipRoots ==
    {[carriers |-> <<>>, localities |-> <<"00">>, records |-> <<>>]}
        \cup [carriers : {<<"10112", "02102">>}, localities : {<<"00">>},
              records : SeqsUpTo(ZipLines, MaxZipLines)]

\* rows of an earlier load of other files
OldZipTables ==
    {<<>>, iter_rows(<<"99501\t\t2019\t2019\t0\t0">>, <<"02102">>, <<"01">>)}

HttpAnswers ==
    {[next |-> [cm |-> TRUE, pcs |-> TRUE], cur |-> [cm |-> TRUE, pcs |-> TRUE]],
     [next |-> [cm |-> FALSE, pcs |-> FALSE], cur |-> [cm |-> TRUE, pcs |-> TRUE]],
     [next |-> [cm |-> TRUE, pcs |-> FALSE], cur |-> [cm |-> TRUE, pcs |-> TRUE]],
     [next |-> [cm |-> FALSE, pcs |-> FALSE], cur |-> [cm |-> FALSE, pcs |-> FALSE]]}

\* the diagnosis files of a download: no row, the row "B02" from "A0.1" of
\* 2024-01-01, that row twice, a row whose date populate_database rejects, a
\* file without header line
BuildCmFiles ==
    {[header |-> TRUE, lines |-> <<>>],
     [header |-> TRUE, lines |-> <<<<"B02", "01/01/24", "A0.1">>>>],
     [header |-> TRUE, lines |-> <<<<"B02", "01/01/24", "A0.1">>,
                                   <<"B02", "01/01/24", "A0.1">>>>],
     [header |-> TRUE, lines |-> <<<<"B02", "01/01/24", "A0.1">>,
                                   <<"B02", "April 2024", "A0.1">>>>],
     [header |-> FALSE, lines |-> <<>>]}

\* the procedure files of a download: no row, the row "0A1" from "0B2" of
\* 2024-04-01, a row without previous code
BuildPcsFiles ==
    {[lines |-> <<>>],
     [lines |-> <<"0A1\tt\t2024\t0B2\tp\tR\tc\t04.01\n">>],
     [lines |-> <<"0A1\tt\t2024\t\tp\tR\tc\t04.01\n">>]}

\* the archives of a download: the .txt files at the top of their archives,
\* one archive without .txt file, and the files of one row each with one
\* of them or both in a folder of the archive
BuildZips ==
    [cm : BuildCmFiles, pcs : BuildPcsFiles, cm_dir : {FALSE}, pcs_dir : {FALSE}]
        \cup {[cm |-> NoneObj, pcs |-> [lines |-> <<>>],
               cm_dir |-> FALSE, pcs_dir |-> FALSE]}
        \cup {[cm      |-> [header |-> TRUE,
                            lines  |-> <<<<"B02", "01/01/24", "A0.1">>>>],
               pcs     |-> [lines |-> <<"0A1\tt\t2024\t0B2\tp\tR\tc\t04.01\n">>],
               cm_dir  |-> c,
               pcs_dir |-> p] : c, p \in BOOLEAN}

\* the archives of the downloads of a build: a procedure file that fails
\* comes with the diagnosis file of one row, a diagnosis file of another
\* kind with the procedure file of one row
BuildArchives ==
    {z \in BuildZips :
        \/ z.cm = NoneObj
        \/ z.cm = [header |-> TRUE, lines |-> <<<<"B02", "01/01/24", "A0.1">>>>]
              /\ z.pcs.lines # <<>>
        \/ z.cm # NoneObj
              /\ z.pcs = [lines |-> <<"0A1\tt\t2024\t0B2\tp\tR\tc\t04.01\n">>]}

\* the answers and archives of the downloads of a build: every archive when
\* all requests answer 200, one archive under the other answers
BuildDownloads ==
    {[http |-> h, zips |-> z] : h \in HttpAnswers, z \in BuildArchives}

BuildCsvFiles == SeqsUpTo(CsvRows, 1)

\* what one build loads: the downloaded provider file, the answers and the
\* archives of the conversion files, the ZIP locality files
BuildBatches ==
    {[csv |-> c, http |-> d.http, zips |-> d.zips, root |-> r] :
        c \in BuildCsvFiles, r \in ZipRoots,
        d \in {d \in BuildDownloads :
                 d.http = [next |-> [cm |-> TRUE, pcs |-> TRUE],
                           cur |-> [cm |-> TRUE, pcs |-> TRUE]]
                 \/ d.zips.cm = NoneObj}}

InitBuild ==
    /\ psf_kind \in {"ipsf", "opsf"}
    /\ psf_table \in BuildCsvFiles
    /\ PopulateIdle
    /\ pcall = NoCall
    /\ zip_table \in OldZipTables
    /\ bcall = NoCall
    /\ fcall = NoCall
    /\ drg = DrgIdle
    /\ vcall = NoCall
    /\ IcdIdle

BuildStores == [psf |-> psf_table, icd |-> icd_table, zip9 |-> zip_table]

build_frame == <<vcall, icall, psf_kind, pcall, fcall, drg>>

\* DatabaseManager._build_databases, lines 64-65: to_sqlite() of the provider
\* files calls populate(download=True, truncate=True). psf_table is the table
\* of the file psf_kind names; the to_sqlite() of the other file leaves it as
\* it is. A build after the first loads the same batch again.
BuildToSqlite ==
    /\ pop_pc = "idle"
    /\ \/ bcall = NoCall
       \/ /\ bcall # NoCall
          /\ bcall.pc \in {"returned", "raised"}
          /\ bcall.loads < MaxBuilds
    /\ \E batch \in (IF bcall = NoCall THEN BuildBatches ELSE {bcall.batch}) :
          /\ bcall' = [op      |-> "_build_databases",
                       batch   |-> batch,
                       pc      |-> "to_sqlite",
                       pending |-> <<>>,
                       raised  |-> NONE,
                       loads   |-> IF bcall = NoCall THEN 0 ELSE bcall.loads,
                       once    |-> IF bcall = NoCall THEN NoneObj ELSE bcall.once]
          /\ pop_pc' = "truncate"
          /\ pop_old' = psf_table
          /\ pop_new' = batch.csv
          /\ pop_rest' = batch.csv
          /\ pop_batch' = IF psf_kind = "ipsf" THEN IPSF_BATCH_SIZE
                          ELSE OPSF_BATCH_SIZE
    /\ UNCHANGED <<build_frame, psf_table, icd_table, zip_table>>

\* line 66, download_icd_conversion_file() is called: the table is cleared
\* and committed, the requests are made
BuildDownload ==
    /\ bcall # NoCall
    /\ bcall.pc = "to_sqlite"
    /\ pop_pc = "idle"
    /\ \E done \in {download_icd_conversion_file(bcall.batch.http,
                                                 bcall.batch.zips)} :
          /\ icd_table' = Head(done.commits)
          /\ bcall' = [bcall EXCEPT !.pc = "download",
                                    !.pending = Tail(done.commits),
                                    !.raised = done.raised]
    /\ UNCHANGED <<build_frame, psf_table, pop_vars, zip_table>>

\* a file of the download is loaded and committed
BuildDownloadCommit ==
    /\ bcall # NoCall
    /\ bcall.pc = "download"
    /\ bcall.pending # <<>>
    /\ icd_table' = Head(bcall.pending)
    /\ bcall' = [bcall EXCEPT !.pending = Tail(@)]
    /\ UNCHANGED <<build_frame, psf_table, pop_vars, zip_table>>

\* download_icd_conversion_file() raises: the build ends with its error
BuildRaise ==
    /\ bcall # NoCall
    /\ bcall.pc = "download"
    /\ bcall.pending = <<>>
    /\ bcall.raised # NONE
    /\ bcall' = [bcall EXCEPT !.pc = "raised", !.loads = @ + 1]
    /\ UNCHANGED <<build_frame, psf_table, pop_vars, icd_table, zip_table>>

\* lines 67-84, download_icd_conversion_file() has returned:
\* load_records(flat_data_path, engine) is called with the ZIP data directory
\* in place
BuildLoadRecords ==
    /\ bcall # NoCall
    /\ bcall.pc = "download"
    /\ bcall.pending = <<>>
    /\ bcall.raised = NONE
    /\ bcall' = [bcall EXCEPT
                    !.pc = "load_records",
                    !.pending = load_records(zip_table, bcall.batch.root,
                                             ZIP_BATCH_SIZE, FALSE).commits]
    /\ UNCHANGED <<build_frame, psf_table, pop_vars, icd_table, zip_table>>

\* sess.execute(insert_stmt, batch); sess.commit() of load_records
BuildRecordsCommit ==
    /\ bcall # NoCall
    /\ bcall.pc = "load_records"
    /\ bcall.pending # <<>>
    /\ zip_table' = Head(bcall.pending)
    /\ bcall' = [bcall EXCEPT !.pending = Tail(@)]
    /\ UNCHANGED <<build_frame, psf_table, pop_vars, icd_table>>

\* load_records and _build_databases return
BuildReturn ==
    /\ bcall # NoCall
    /\ bcall.pc = "load_records"
    /\ bcall.pending = <<>>
    /\ bcall' = [bcall EXCEPT
                    !.pc = "returned",
                    !.loads = @ + 1,
                    !.once = IF bcall.once = NoneObj THEN BuildStores ELSE @]
    /\ UNCHANGED <<build_frame, psf_table, pop_vars, icd_table, zip_table>>

\* the populate() of to_sqlite() runs while the build is at to_sqlite
BuildPopulate ==
    /\ bcall # NoCall
    /\ bcall.pc = "to_sqlite"
    /\ \/ PopulateTruncate
       \/ PopulateInsertBatch
       \/ PopulateReturn

NextBuild ==
    \/ BuildToSqlite
    \/ BuildPopulate
    \/ BuildDownload
    \/ BuildDownloadCommit
    \/ BuildRaise
    \/ BuildLoadRecords
    \/ BuildRecordsCommit
    \/ BuildReturn

SpecBuild == InitBuild /\ [][NextBuild]_vars

\* C11: a build replaces the stored records by those of its batch and never
\* appends to what an earlier load left: after a build that loaded the ZIP
\* files, the ZIP table holds the rows of the batch only and the provider
\* table the rows of the downloaded file only; and after the same batch has
\* been loaded twice, the stored records and every provider lookup are those
\* found after loading it once.
C11_FullReplaceLoad ==
    (bcall # NoCall /\ bcall.pc = "returned") =>
        /\ psf_table = bcall.batch.csv
        /\ bcall.batch.root.carriers # <<>> =>
              zip_table = iter_rows(bcall.batch.root.records,
                                    bcall.batch.root.carriers,
                                    bcall.batch.root.localities)
        /\ bcall.loads >= 2 =>
              /\ BuildStores = bcall.once
              /\ \A provider \in Providers, date_int \in AsOfInts :
                    from_db(psf_kind, psf_table, provider, date_int)
                        = from_db(psf_kind, bcall.once.psf, provider, date_int)

-----------------------------------------------------------------------------
(* Specification SpecReconfig: threads calling DrgClient.process and        *)
(* DrgClient.reconfigure on one client. drg is [op, lock, drg_versions,     *)
(* proc, rec]: lock is <<"free", 0>> or <<owner kind, thread>>,             *)
(* drg_versions the grouper components of the client, proc[t] = [pc,        *)
(* retries, call, drg_version, error] a process call, rec[r] = [pc] a       *)
(* reconfigure call.                                                        *)

MaxProcessCalls == 2
MaxReconfigureCalls == 1

\* retries = 10
ProbeRetries == 10

ProcessThreads == 1..MaxProcessCalls
ReconfigureThreads == 1..MaxReconfigureCalls

LockFree == <<"free", 0>>

\* reconfigure, lines 187-223, on the dict drg_versions. The three options
\* are [cls, name]: cls the class of the value, name the member of the
\* enumeration. returns tells whether drg_component.reconfigure of the
\* grouper returns; when it raises, applied tells whether the component has
\* taken the options. [raised, drg_versions].
reconfigure(drg_versions, drg_version, hospital_status, affect_drg, logic_tiebreaker, returns, applied) ==
    LET runtime_options ==
            [compute_affect_drg        |-> affect_drg.name,
             marking_logic_tie_breaker |-> logic_tiebreaker.name,
             poa_reporting_exempt      |->
                 IF hospital_status.name = "EXEMPT" THEN "EXEMPT"
                 ELSE "NON_EXEMPT"]
        component == IF hospital_status.name = "EXEMPT" THEN "exempt"
                     ELSE "non_exempt"
        configured ==
            SetItem(drg_versions, drg_version,
                    SetItem(drg_versions[drg_version], component,
                            runtime_options))
    IN  IF hospital_status.cls # "MsdrgHospitalStatusOptionFlag"
        THEN [raised |-> "ValueError", drg_versions |-> drg_versions]
        ELSE IF affect_drg.cls # "MsdrgAffectDrgOptionFlag"
        THEN [raised |-> "ValueError", drg_versions |-> drg_versions]
        ELSE IF logic_tiebreaker.cls # "MarkingLogicTieBreaker"
        THEN [raised |-> "ValueError", drg_versions |-> drg_versions]
        ELSE IF drg_version \notin DOMAIN drg_versions
        THEN [raised |-> "ValueError", drg_versions |-> drg_versions]
        ELSE IF component \notin DOMAIN drg_versions[drg_version]
        THEN [raised |-> "KeyError", drg_versions |-> drg_versions]
        ELSE IF ~returns
        THEN [raised       |-> "JException",
              drg_versions |-> IF applied THEN configured ELSE drg_versions]
        ELSE [raised |-> NONE, drg_versions |-> configured]

\* the clients: "410" and "420" are loaded, a constructor of "411" raised
ReconfigClients ==
    {loaded_groupers(<<"400", "401", "410", "411", "420">>,
                     [v \in {"400", "401", "410", "411", "420"} |->
                         IF v \in {"410", "420"} THEN "loaded"
                         ELSE IF v = "411" THEN o
                         ELSE "ClassNotFound"]) : o \in {"exempt", "non_exempt"}}

\* the claim of an adult and principal diagnosis "A01" with thru_date
\* 2024-11-15, for each patient of DrgPatients without date of birth: the
\* default Patient(), the adult, the adult of patient_status "home"
ReconfigClaims ==
    {WithPatient([thru_date     |-> MkDate(2024, 11, 15),
                  principal_dx  |-> "A01",
                  admit_dx      |-> NONE,
                  secondary_dxs |-> <<>>,
                  inpatient_pxs |-> <<>>,
                  icd_convert   |-> NoneObj], p) :
        p \in {p \in DrgPatients : p.patient.date_of_birth = NoneObj}}

\* the calls of process(): the claims as they are, the claim of the adult
\* with a conversion to the target version "4x0", without principal
\* diagnosis, and under the versions "411" and "400"
ProcessCalls ==
    {[claim |-> c, drg_version |-> NONE, icd_converter |-> FALSE,
      poa_exempt |-> FALSE] : c \in ReconfigClaims}
    \cup
    UNION {{[claim |-> [c EXCEPT !.icd_convert =
                           [option |-> "MANUAL", target_version |-> "4x0",
                            billed_version |-> "410"]],
             drg_version |-> NONE, icd_converter |-> TRUE,
             poa_exempt |-> FALSE],
            [claim |-> [c EXCEPT !.principal_dx = NONE],
             drg_version |-> NONE, icd_converter |-> FALSE,
             poa_exempt |-> FALSE]} \cup
           {[claim |-> c, drg_version |-> v, icd_converter |-> FALSE,
             poa_exempt |-> e] : v \in {"411", "400"}, e \in BOOLEAN} :
              c \in {c \in ReconfigClaims : c.patient_status = "01"}}

\* the options reconfigure() is called with: members of the enumerations
\* and a str in place of one
HospitalStatusArgs ==
    {[cls |-> "MsdrgHospitalStatusOptionFlag", name |-> n] :
        n \in {"NON_EXEMPT", "EXEMPT", "UNKNOWN"}}
    \cup {[cls |-> "str", name |-> "EXEMPT"]}

AffectDrgArgs ==
    {[cls |-> "MsdrgAffectDrgOptionFlag", name |-> "DO_NOT_COMPUTE"],
     [cls |-> "str", name |-> "COMPUTE"]}

TieBreakerArgs ==
    {[cls |-> "MarkingLogicTieBreaker", name |-> "CODE_ORDER"],
     [cls |-> "str", name |-> "CODE_ORDER"]}

reconfig_frame == <<vcall, icd_vars, psf_kind, psf_table, pop_vars, pcall,
                    zip_table, bcall, fcall>>

\* a client after __init__ with every call still to be made
InitReconfig ==
    /\ IcdIdle
    /\ vcall = NoCall
    /\ psf_kind = "ipsf"
    /\ psf_table = <<>>
    /\ PopulateIdle
    /\ pcall = NoCall
    /\ zip_table = <<>>
    /\ bcall = NoCall
    /\ fcall = NoCall
    /\ \E drg_versions \in ReconfigClients :
          drg = [op           |-> "threads",
                 lock         |-> LockFree,
                 drg_versions |-> drg_versions,
                 proc         |-> [t \in ProcessThreads |->
                                      [pc          |-> "probe",
                                       retries     |-> ProbeRetries,
                                       call        |-> NoneObj,
                                       drg_version |-> NONE,
                                       error       |-> NONE]],
                 rec          |-> [r \in ReconfigureThreads |-> [pc |-> "call"]]]

\* process, lines 524-525: the lock is free and acquire(blocking=False)
\* takes it
ProbeAcquire(t) ==
    /\ drg.op = "threads"
    /\ drg.proc[t].pc = "probe"
    /\ drg.proc[t].retries > 0
    /\ drg.lock = LockFree
    /\ drg' = [drg EXCEPT !.lock = <<"process", t>>,
                          !.proc[t].pc = "release"]
    /\ UNCHANGED reconfig_frame

\* process, lines 526-527: release() and break
ProbeRelease(t) ==
    /\ drg.op = "threads"
    /\ drg.proc[t].pc = "release"
    /\ drg' = [drg EXCEPT !.lock = LockFree, !.proc[t].pc = "select"]
    /\ UNCHANGED reconfig_frame

\* process, lines 528-530: the lock is held, one retry is used up and the
\* thread sleeps
ProbeBusy(t) ==
    /\ drg.op = "threads"
    /\ drg.proc[t].pc = "probe"
    /\ drg.proc[t].retries > 0
    /\ drg.lock # LockFree
    /\ drg' = [drg EXCEPT !.proc[t].retries = @ - 1]
    /\ UNCHANGED reconfig_frame

\* process, lines 531-534: no retry is left, RuntimeError
ProbeGiveUp(t) ==
    /\ drg.op = "threads"
    /\ drg.proc[t].pc = "probe"
    /\ drg.proc[t].retries = 0
    /\ drg' = [drg EXCEPT
                  !.proc[t].pc = "RuntimeError",
                  !.proc[t].error =
                      "DRG client is busy reconfiguring, please try again later"]
    /\ UNCHANGED reconfig_frame

\* process, lines 536-555, for the arguments of the call: the version is
\* resolved and drg_component is selected, or ValueError (version not
\* loaded, claim incomplete) or KeyError (the entry of the version lacks
\* the component) is raised
SelectComponent(t) ==
    /\ drg.op = "threads"
    /\ drg.proc[t].pc = "select"
    /\ \E call \in ProcessCalls :
       \E sel \in {process_select(drg.drg_versions, call.claim,
                                  call.drg_version, call.poa_exempt)} :
          drg' = [drg EXCEPT
                     !.proc[t].call = call,
                     !.proc[t].drg_version = sel.drg_version,
                     !.proc[t].pc = IF sel.raised = NONE THEN "group"
                                    ELSE sel.raised]
    /\ UNCHANGED reconfig_frame

\* process, lines 557-577: the mappings and the input are built, which may
\* raise; drg_component.process runs and the output is returned, or
\* RuntimeError is raised because the output is not present or, by
\* handle_java_exceptions, because the grouper raised a Java exception
GroupClaim(t) ==
    /\ drg.op = "threads"
    /\ drg.proc[t].pc = "group"
    /\ \E i \in process_input(icd_table, drg.proc[t].call.claim,
                               drg.proc[t].drg_version,
                               drg.proc[t].call.icd_converter) :
          IF i.result.status # "ok"
          THEN drg' = [drg EXCEPT !.proc[t].pc = i.result.status]
          ELSE \E output \in {"present", "absent", "JException"} :
                  drg' = [drg EXCEPT
                             !.proc[t].pc =
                                 IF output = "present" THEN "returned"
                                 ELSE "RuntimeError",
                             !.proc[t].error =
                                 IF output = "present" THEN NONE
                                 ELSE IF output = "absent"
                                 THEN "DRG output is not present"
                                 ELSE "Java exception occurred in process"]
    /\ UNCHANGED reconfig_frame

\* reconfigure, line 186: with self._reconfig_lock blocks until the lock is
\* free and takes it
ReconfigureEnter(r) ==
    /\ drg.op = "threads"
    /\ drg.rec[r].pc = "call"
    /\ drg.lock = LockFree
    /\ drg' = [drg EXCEPT !.lock = <<"reconfigure", r>>,
                          !.rec[r].pc = "locked"]
    /\ UNCHANGED reconfig_frame

\* reconfigure, lines 187-223, for the arguments of the call: the options
\* are checked and the component of the version is reconfigured, or the
\* call raises; the with statement releases the lock either way
ReconfigureExit(r) ==
    /\ drg.op = "threads"
    /\ drg.rec[r].pc = "locked"
    /\ \E drg_version \in {"420", "411", "400"},
          hospital_status \in HospitalStatusArgs,
          affect_drg \in AffectDrgArgs,
          logic_tiebreaker \in TieBreakerArgs,
          returns \in BOOLEAN, applied \in BOOLEAN :
       \E done \in {reconfigure(drg.drg_versions, drg_version, hospital_status,
                                affect_drg, logic_tiebreaker, returns,
                                applied)} :
          drg' = [drg EXCEPT
                     !.lock = LockFree,
                     !.drg_versions = done.drg_versions,
                     !.rec[r].pc = IF done.raised = NONE THEN "returned"
                                   ELSE done.raised]
    /\ UNCHANGED reconfig_frame

NextReconfig ==
    \/ \E t \in ProcessThreads :
          \/ ProbeAcquire(t)
          \/ ProbeRelease(t)
          \/ ProbeBusy(t)
          \/ ProbeGiveUp(t)
          \/ SelectComponent(t)
          \/ GroupClaim(t)
    \/ \E r \in ReconfigureThreads :
          \/ ReconfigureEnter(r)
          \/ ReconfigureExit(r)

SpecReconfig == InitReconfig /\ [][NextReconfig]_vars

\* C26: process and reconfigure exclude each other: no process call is
\* between the selection of drg_component and the end of
\* drg_component.process while a reconfigure call holds the lock, and a
\* process call that raised the busy RuntimeError has used its 10 attempts.
C26_ProcessExcludesReconfigure ==
    drg.op = "threads" =>
        /\ \A t \in ProcessThreads :
              drg.proc[t].pc \in {"select", "group"} =>
                  drg.lock[1] # "reconfigure"
        /\ \A t \in ProcessThreads :
              (/\ drg.proc[t].pc = "RuntimeError"
               /\ drg.proc[t].error =
                     "DRG client is busy reconfiguring, please try again later")
                  => drg.proc[t].retries = 0

-----------------------------------------------------------------------------
(* Specification SpecRefresh: download_icd_conversion_file on a converter   *)
(* whose table is loaded, then lookups                                      *)

\* whether each of the four HEAD requests answers 200
HttpCombos ==
    [next : [cm : BOOLEAN, pcs : BOOLEAN], cur : [cm : BOOLEAN, pcs : BOOLEAN]]

\* the archives of the downloads of SpecRefresh: each file holds a row or
\* is one that fails to load
RefreshZips ==
    {z \in BuildZips :
        /\ z.cm # NoneObj
        /\ z.cm # [header |-> TRUE, lines |-> <<>>]
        /\ z.pcs.lines # <<>>}

\* the tables an earlier download left
RefreshedBefore ==
    {<<>>,
     <<[previous_code |-> "B02", current_code |-> "A01",
        effective_date |-> MkDate(2024, 1, 1), code_type |-> 0]>>,
     <<[previous_code |-> "B02", current_code |-> "A01",
        effective_date |-> MkDate(2024, 1, 1), code_type |-> 0],
       [previous_code |-> "A01", current_code |-> "B02",
        effective_date |-> MkDate(2024, 10, 1), code_type |-> 1]>>}

\* a converter whose table holds the entries of an earlier download
InitRefresh ==
    /\ icd_table \in RefreshedBefore
    /\ icall = NoCall
    /\ vcall = NoCall
    /\ PsfIdle

refresh_frame == <<vcall, icall, psf_kind, psf_table, pop_vars, pcall,
                   zip_table, fcall, drg>>

\* converter.download_icd_conversion_file() is called: the table is cleared
\* and committed, the requests are made
DownloadIcdConversionFile ==
    /\ bcall = NoCall
    /\ \E http \in HttpCombos, zips \in RefreshZips :
       \E done \in {download_icd_conversion_file(http, zips)} :
          /\ icd_table' = Head(done.commits)
          /\ bcall' = [op      |-> "download_icd_conversion_file",
                       http    |-> http,
                       zips    |-> zips,
                       old     |-> icd_table,
                       pc      |-> "running",
                       pending |-> Tail(done.commits),
                       raised  |-> done.raised]
    /\ UNCHANGED refresh_frame

\* a file of the download is loaded and committed
DownloadCommit ==
    /\ bcall # NoCall
    /\ bcall.pc = "running"
    /\ bcall.pending # <<>>
    /\ icd_table' = Head(bcall.pending)
    /\ bcall' = [bcall EXCEPT !.pending = Tail(@)]
    /\ UNCHANGED refresh_frame

\* the call returns or raises
DownloadReturn ==
    /\ bcall # NoCall
    /\ bcall.pc = "running"
    /\ bcall.pending = <<>>
    /\ bcall' = [bcall EXCEPT
                    !.pc = IF bcall.raised = NONE THEN "returned" ELSE "raised"]
    /\ UNCHANGED <<refresh_frame, icd_table>>

NextRefresh ==
    \/ DownloadIcdConversionFile
    \/ DownloadCommit
    \/ DownloadReturn
    \/ ConvertBackward
    \/ ConvertForward

SpecRefresh == InitRefresh /\ [][NextRefresh]_vars

\* the rows of the two files of the recorded download, the diagnosis rows
\* first
FreshRows ==
    LET cm == load_conversion_table(<<>>, bcall.zips.cm)
    IN  IF cm.raised # NONE THEN <<>>
        ELSE populate_database_pcs(cm.table, bcall.zips.pcs.lines).table

\* the files of the recorded download load without error
FreshLoads ==
    LET cm == load_conversion_table(<<>>, bcall.zips.cm)
    IN  /\ cm.raised = NONE
        /\ populate_database_pcs(cm.table, bcall.zips.pcs.lines).raised = NONE

\* C27: when download_icd_conversion_file returns without raising, the table
\* holds the entries of the freshly downloaded files; whatever the four HEAD
\* requests answer, the entries loaded before are either replaced by the
\* fresh ones or still there.
C27_ReplacedNotDiscarded ==
    (bcall.op = "download_icd_conversion_file" /\ bcall.pc # "running") =>
        /\ bcall.pc = "returned" => FreshLoads /\ icd_table = FreshRows
        /\ \/ FreshLoads /\ icd_table = FreshRows
           \/ icd_table = bcall.old

-----------------------------------------------------------------------------
(* generate_claim_mappings: the errors it can end with                      *)

\* C28: for a claim with thru_date and principal_dx, generate_claim_mappings
\* returns its output or raises ValueError: MANUAL with a missing or
\* non-numeric target or billed version raises ValueError, AUTO or no
\* icd_convert without a target version raises ValueError, and with option
\* NONE or no option the call ends with no other kind of error.
C28_OnlyValueError ==
    (/\ icall.op = "generate_claim_mappings"
     /\ icall.claim.thru_date # NoneObj
     /\ icall.claim.principal_dx # NONE)
    => LET ic == icall.claim.icd_convert
       IN  /\ icall.result.status \in {"ok", "ValueError"}
           /\ (/\ ic # NoneObj
               /\ ic.option = "MANUAL"
               /\ \/ ic.target_version = NONE
                  \/ ic.billed_version = NONE
                  \/ ~AllDigits(ic.target_version)
                  \/ ~AllDigits(ic.billed_version))
              => icall.result.status = "ValueError"
           /\ (/\ ic = NoneObj \/ ic.option = "AUTO"
               /\ icall.target_vers = NONE)
              => icall.result.status = "ValueError"

-----------------------------------------------------------------------------
(* Provider lookups: records terminated before the as-of date               *)

\* C29: the record from_db selects for a key and an as-of date D was not
\* terminated at D: its termination_date is open-ended (19000101, 0 or null)
\* or >= D.
C29_NotTerminated ==
    (pcall.op = "from_db" /\ pcall.result.status = "ok"
        /\ pcall.during = "idle" /\ pop_pc = "idle") =>
        LET termination_date == psf_table[pcall.rowid].termination_date
        IN  \/ termination_date \in {19000101, 0, NullInt}
            \/ termination_date >= pcall.date_int

-----------------------------------------------------------------------------
(* Specification SpecGroupers: the version probe loop of load_drg_groupers. *)
(* drg is [op, now, end_version, classes, curr_version, attempted,          *)
(* drg_versions, pc]: now are the three readings of the clock              *)
(* determine_end_version makes, classes[v] is what the grouper classes of  *)
(* version v do when they are loaded, drg_versions is the dict of the      *)
(* client.                                                                 *)

\* a > b for str: the first differing character decides, a proper prefix is
\* the smaller (the characters of a version are digits)
RECURSIVE str_gt(_, _)
str_gt(a, b) ==
    IF Len(a) = 0 THEN FALSE
    ELSE IF Len(b) = 0 THEN TRUE
    ELSE IF SubSeq(a, 1, 1) = SubSeq(b, 1, 1) THEN str_gt(Tail(a), Tail(b))
    ELSE DigitVal(SubSeq(a, 1, 1)) > DigitVal(SubSeq(b, 1, 1))

\* one turn of the while loop of load_drg_groupers: loads tells whether the
\* grouper class of curr_version is found and both components are
\* constructed
probe_step(curr_version, end_version, loads) ==
    IF loads
    THEN [stop |-> FALSE, curr_version |-> increment_version(curr_version)]
    ELSE IF str_gt(curr_version, end_version)
    THEN [stop |-> TRUE, curr_version |-> curr_version]
    ELSE [stop |-> FALSE, curr_version |-> increment_version(curr_version)]

MaxLoadable == 6

\* the first n versions from MSDRG_VSTART on
RECURSIVE VersionWalk(_)
VersionWalk(n) ==
    IF n = 0 THEN <<>>
    ELSE IF n = 1 THEN <<MSDRG_VSTART>>
    ELSE LET w == VersionWalk(n - 1)
         IN  Append(w, increment_version(w[Len(w)]))

LoadableVersions == Range(VersionWalk(MaxLoadable))

\* what the grouper classes of the versions do: each version loads or its
\* class is not found, and for at most one version a constructor raises;
\* the class of a version after the first MaxLoadable is not found
GrouperClasses ==
    {f \in [LoadableVersions ->
               {"loaded", "ClassNotFound", "exempt", "non_exempt"}] :
        Cardinality({v \in LoadableVersions :
                        f[v] \in {"exempt", "non_exempt"}}) <= 1}

class_outcome(classes, version) ==
    IF version \in DOMAIN classes THEN classes[version] ELSE "ClassNotFound"

\* the days on which the client is constructed: days within a half-year and
\* the last day of a half-year and of a year
ProbeDates ==
    {MkDate(y, m, 15) : y \in 2022..2025, m \in {2, 6, 11}}
        \cup {MkDate(2024, 3, 31), MkDate(2024, 9, 30), MkDate(2024, 12, 31)}

\* the values of datetime.now() at the three calls of determine_end_version:
\* the clock stays on its day or passes midnight between two calls
ClockReads ==
    UNION {{<<d, d, d>>, <<d, d, NextDay(d)>>, <<d, NextDay(d), NextDay(d)>>} :
              d \in ProbeDates}

\* DrgClient.__init__ reaches load_drg_groupers
InitGroupers ==
    /\ IcdIdle
    /\ vcall = NoCall
    /\ psf_kind = "ipsf"
    /\ psf_table = <<>>
    /\ PopulateIdle
    /\ pcall = NoCall
    /\ zip_table = <<>>
    /\ bcall = NoCall
    /\ fcall = NoCall
    /\ \E now \in ClockReads, classes \in GrouperClasses :
          drg = [op           |-> "load_drg_groupers",
                 now          |-> now,
                 end_version  |-> determine_end_version(now),
                 classes      |-> classes,
                 curr_version |-> MSDRG_VSTART,
                 attempted    |-> <<>>,
                 drg_versions |-> EmptyDict,
                 pc           |-> "loop"]

\* one turn of the loop
ProbeVersion ==
    /\ drg.op = "load_drg_groupers"
    /\ drg.pc = "loop"
    /\ \E load \in {load_drg_grouper(drg.drg_versions, drg.curr_version,
                                      class_outcome(drg.classes,
                                                    drg.curr_version))} :
       \E step \in {probe_step(drg.curr_version, drg.end_version,
                               ~load.raised)} :
          drg' = [drg EXCEPT
                     !.attempted    = Append(@, drg.curr_version),
                     !.drg_versions = load.drg_versions,
                     !.curr_version = step.curr_version,
                     !.pc           = IF step.stop THEN "returned" ELSE "loop"]
    /\ UNCHANGED reconfig_frame

NextGroupers == ProbeVersion

SpecGroupers == InitGroupers /\ [][NextGroupers]_vars

\* the versions of the half-year sequence from "400" on
HalfYearVersions ==
    {Drg_determine_drg_version(MkDate(y, m, 1)) : y \in 2022..2027, m \in {4, 10}}
        \ {"391"}

\* the versions whose two components are constructed
GrouperLoadable ==
    {v \in DOMAIN drg.classes : drg.classes[v] = "loaded"}

\* the versions of the dict that hold both components
GrouperLoaded ==
    {v \in DOMAIN drg.drg_versions :
        DOMAIN drg.drg_versions[v] = {"exempt", "non_exempt"}}

\* C30: the probe loop attempts the versions of the half-year sequence from
\* "400" in order, one step of increment_version at a time; the end version
\* being the version of today's date (the day of one of the clock readings
\* of the call), when the loop has ended every version up to and including
\* the end version has been attempted whether it loaded or not, the last
\* version attempted is greater than the end version and failed to load, and
\* no earlier attempt was a failure of a version greater than the end version.
C30_ProbeLoop ==
    drg.op = "load_drg_groupers" =>
        \E today \in Range(drg.now) :
            LET a           == drg.attempted
                end_version == int10(Drg_determine_drg_version(today))
            IN  /\ Len(a) >= 1 => a[1] = "400"
                /\ \A k \in 1..(Len(a) - 1) :
                      VersionEffDate(a[k + 1]) = NextHalfYear(VersionEffDate(a[k]))
                /\ GrouperLoaded = Range(a) \cap GrouperLoadable
                /\ drg.pc = "returned" =>
                      /\ Len(a) >= 1
                      /\ int10(a[Len(a)]) > end_version
                      /\ a[Len(a)] \notin GrouperLoadable
                      /\ \A k \in 1..(Len(a) - 1) :
                            int10(a[k]) <= end_version \/ a[k] \in GrouperLoadable
                      /\ \A v \in HalfYearVersions :
                            int10(v) <= end_version => v \in Range(a)
====
